---- MODULE Spec2Model ----
(***************************************************************************)
(* A model of the assessment pipeline of jonesgg/meka (src/lambda).        *)
(*                                                                         *)
(* calculate_assessment_scores (calculations.py) is modelled statement by  *)
(* statement: one action per assignment of the function, over a heap of    *)
(* Python dict objects (so that the shallow copy of line 22 shares the     *)
(* nested sections with the caller's mapping) and a frame of local names   *)
(* per invocation.  A subscript on a missing key raises KeyError and ends  *)
(* the invocation.                                                         *)
(*                                                                         *)
(* Numbers: every Python number is an exact rational [num, den] in lowest  *)
(* terms with den > 0.  Python's binary floating point rounding, overflow  *)
(* to inf and NaN are not modelled; round(x, 1) is modelled as rounding    *)
(* the exact value to the nearest tenth, ties to even.  One more value,    *)
(* TooLargeForFloat, stands for an int beyond the range of a float: a      *)
(* quotient or product with it that Python would convert to float raises   *)
(* OverflowError.  Only the requests of lambda_handler carry it.           *)
(*                                                                         *)
(* lambda_handler (lambda_function.py) is modelled step by step, calling   *)
(* the calculation as invocation 1; its collaborators (Excel upload,       *)
(* DynamoDB, PDF rendering, SES) answer with any of the results their code *)
(* can return.                                                             *)
(***************************************************************************)
EXTENDS Integers, Sequences, FiniteSets, TLC

VARIABLES heap,   \* object id -> dict (a function from keys to values)
          pc,     \* invocation -> the statement it is about to execute
          loc,    \* invocation -> its bound local names
          heap0,  \* the heap as it was before any invocation started
          hpc,    \* the statement lambda_handler is about to execute
          hloc,   \* the bound local names of lambda_handler
          world   \* what the handler's collaborators have done outside

\* the state of lambda_handler and of the services behind it
hvars == <<hpc, hloc, world>>

vars == <<heap, pc, loc, heap0, hpc, hloc, world>>

(***************************************************************************)
(* Bounds of the model.                                                    *)
(***************************************************************************)
\* the financial figures of an input range over 0..MaxAmount
MaxAmount == 2
\* score sections with every combination of scores have MaxMixed fields
MaxMixed == 3

(***************************************************************************)
(* Python numbers as exact rationals.                                      *)
(***************************************************************************)
Abs(x) == IF x < 0 THEN -x ELSE x

RECURSIVE GCD(_, _)
GCD(a, b) == IF b = 0 THEN a ELSE GCD(b, a % b)

\* the number n/d (d > 0) in lowest terms
Rat(n, d) ==
    LET g == GCD(Abs(n), d)
    IN  IF g = 0 THEN [num |-> 0, den |-> 1]
        ELSE [num |-> n \div g, den |-> d \div g]

Num(k) == [num |-> k, den |-> 1]
Zero == Num(0)

RAdd(a, b) == Rat(a.num * b.den + b.num * a.den, a.den * b.den)
RSub(a, b) == Rat(a.num * b.den - b.num * a.den, a.den * b.den)
RMul(a, b) == Rat(a.num * b.num, a.den * b.den)
\* what a / 0 evaluates to: nothing, Python raises ZeroDivisionError
DivisionByZero == [num |-> 0, den |-> 0]

\* an int too large to convert to a float, such as 10**400.  Rat keeps the
\* denominator 0, so a sum, product or quotient of it and a positive number
\* is TooLargeForFloat again, and 1 / TooLargeForFloat is 0
TooLargeForFloat == [num |-> 1, den |-> 0]

\* a / b
RDiv(a, b) ==
    IF b.num = 0 THEN DivisionByZero
    ELSE IF b.num > 0 THEN Rat(a.num * b.den, a.den * b.num)
    ELSE Rat(-(a.num * b.den), a.den * (-b.num))
RLt(a, b) == a.num * b.den < b.num * a.den
RLe(a, b) == a.num * b.den <= b.num * a.den
RGt(a, b) == RLt(b, a)

\* round(x, 1): the nearest multiple of 1/10, a tie going to the even one
Round1(x) ==
    LET n == x.num * 10
        q == n \div x.den
        r == n - q * x.den
    IN  IF 2 * r < x.den THEN Rat(q, 10)
        ELSE IF 2 * r > x.den THEN Rat(q + 1, 10)
        ELSE IF q % 2 = 0 THEN Rat(q, 10) ELSE Rat(q + 1, 10)

IsNumber(v) ==
    /\ DOMAIN v = {"num", "den"}
    /\ v.num \in Int
    /\ v.den \in Nat \ {0}

(***************************************************************************)
(* Python dicts.                                                           *)
(***************************************************************************)
EmptyDict == [k \in {} |-> 0]

\* d[k] = v
SetItem(d, k, v) == [x \in DOMAIN d \cup {k} |-> IF x = k THEN v ELSE d[x]]

\* d without key k
DelItem(d, k) == [x \in DOMAIN d \ {k} |-> d[x]]

(***************************************************************************)
(* The benchmark table of calculate_assessment_scores.                     *)
(***************************************************************************)
industry_data ==
    [Retail |-> [multiple |-> Rat(41, 10), margin |-> Rat(150, 10)],
     Restaurants |-> [multiple |-> Rat(36, 10), margin |-> Rat(125, 10)],
     Construction |-> [multiple |-> Rat(43, 10), margin |-> Rat(180, 10)],
     Manufacturing |-> [multiple |-> Rat(46, 10), margin |-> Rat(192, 10)]]
    @@ ("Professional Services" :> [multiple |-> Rat(45, 10), margin |-> Rat(267, 10)])
    @@ ("Healthcare (Non-Medical)" :> [multiple |-> Rat(50, 10), margin |-> Rat(222, 10)])
    @@ ("E-commerce" :> [multiple |-> Rat(48, 10), margin |-> Rat(203, 10)])
    @@ ("Wholesale/Distribution" :> [multiple |-> Rat(42, 10), margin |-> Rat(149, 10)])
    @@ ("Auto Repair" :> [multiple |-> Rat(38, 10), margin |-> Rat(177, 10)])
    @@ ("Beauty/Personal Care" :> [multiple |-> Rat(37, 10), margin |-> Rat(154, 10)])
    @@ ("IT Services" :> [multiple |-> Rat(53, 10), margin |-> Rat(256, 10)])
    @@ ("Other" :> [multiple |-> Rat(41, 10), margin |-> Rat(175, 10)])

\* industry_data.get(industry, industry_data['Other'])
DictGet(d, k, default) == IF k \in DOMAIN d THEN d[k] ELSE default

(***************************************************************************)
(* The sections of an assessment record (validation.py, ASSESSMENT_SCHEMA).*)
(***************************************************************************)
BGNumericRequired ==
    {"number_of_employees", "last_year_revenue", "last_year_profit",
     "current_year_estimated_revenue", "current_year_estimated_profit"}

BPFields ==
    <<"financial_statements", "profitability", "customer_base", "sales_growth",
      "brand_value", "marketing", "market_position", "customer_relationships",
      "growth_strategy", "revenue_streams", "management_capability",
      "leadership_roles", "succession_planning", "employee_turnover",
      "business_processes", "it_systems", "operations_continuity",
      "technology_systems", "proprietary_tech", "operational_processes",
      "scalability", "supplier_contracts", "operating_expenses",
      "risk_management", "business_resilience", "legal_contracts">>

PRFields ==
    <<"personal_identity", "financial_plan", "physical_health", "energy_level",
      "estate_plan", "legal_protections", "future_vision",
      "family_communication", "professional_advisors", "process_confidence">>

\* a JSON value of a score section, with its Python type
JInt(k) == [type |-> "int", val |-> k]
JStr == [type |-> "str", val |-> 0]

\* isinstance(value, int): bool is a subclass of int
IsInstanceInt(v) == v.type \in {"int", "bool"}

(***************************************************************************)
(* Inputs.                                                                 *)
(***************************************************************************)
Amounts == {Num(k) : k \in 0..MaxAmount}
ZeroOrOne == {Zero, Num(1)}

\* the twelve enumerated industries and three strings outside the table
KnownIndustries == DOMAIN industry_data
UnknownIndustries == {"Unknown Industry", "retail", ""}
Industries == KnownIndustries \cup UnknownIndustries

business_goals_record(ind, emp, lyr, lyp, cyr, cyp) ==
    [company_name |-> "Acme",
     company_industry |-> ind,
     number_of_employees |-> emp,
     current_business_value |-> Num(1),
     target_sale_price |-> Num(2),
     last_year_revenue |-> lyr,
     last_year_profit |-> lyp,
     current_year_estimated_revenue |-> cyr,
     current_year_estimated_profit |-> cyp,
     planned_exit_timeline |-> "1-2 years",
     would_accept_offer |-> "yes",
     business_readiness |-> "business would fall apart without me"]

\* the first k fields of a section, each with the integer v
UniformSection(fields, k, v) ==
    [f \in {fields[i] : i \in 1..k} |-> JInt(v)]

DefaultBG == business_goals_record("Retail", Num(2), Num(2), Num(1), Num(2), Num(1))
DefaultBP == UniformSection(BPFields, Len(BPFields), 3)
DefaultPR == UniformSection(PRFields, Len(PRFields), 4)

\* every industry with every combination of 0 and 1 for the five financial
\* figures, and four industries with every combination of 0..MaxAmount
WideIndustries == {"Retail", "IT Services", "Other", "Unknown Industry"}

FinancialInputs ==
    {[bg |-> business_goals_record(ind, emp, lyr, lyp, cyr, cyp),
      bp |-> DefaultBP, pr |-> DefaultPR] :
        ind \in Industries, emp \in ZeroOrOne, lyr \in ZeroOrOne,
        lyp \in ZeroOrOne, cyr \in ZeroOrOne, cyp \in ZeroOrOne}
    \cup
    {[bg |-> business_goals_record(ind, emp, lyr, lyp, cyr, cyp),
      bp |-> DefaultBP, pr |-> DefaultPR] :
        ind \in WideIndustries, emp \in Amounts, lyr \in Amounts,
        lyp \in Amounts, cyr \in Amounts, cyp \in Amounts}

\* records that lack one of the keys business_goals is subscripted with
MissingFieldInputs ==
    {[bg |-> DelItem(business_goals_record("Retail", emp, lyr, lyp, cyr, cyp), k),
      bp |-> DefaultBP, pr |-> DefaultPR] :
        k \in BGNumericRequired \cup {"company_industry"},
        emp \in ZeroOrOne, lyr \in ZeroOrOne, lyp \in ZeroOrOne,
        cyr \in ZeroOrOne, cyp \in ZeroOrOne}

\* score sections: empty, partial and full, and with a non-integer entry
SectionInputs(fields) ==
    {UniformSection(fields, k, v) : k \in {0, 1, 2, Len(fields)}, v \in 1..6}
    \cup {SetItem(UniformSection(fields, k, v), fields[1], JStr) :
            k \in {1, 2}, v \in {1, 6}}

ScoreInputs ==
    {[bg |-> DefaultBG, bp |-> bp, pr |-> pr] :
        bp \in SectionInputs(BPFields), pr \in SectionInputs(PRFields)}

\* the personal-readiness section with only its first k fields, for every k
PartialReadinessInputs ==
    {[bg |-> DefaultBG, bp |-> DefaultBP, pr |-> UniformSection(PRFields, k, v)] :
        k \in 0..Len(PRFields), v \in 1..6}

\* the first n fields of a section, field i with the integer vs[i]
MixedSection(fields, vs) ==
    [f \in {fields[i] : i \in 1..Len(vs)} |->
        JInt(vs[CHOOSE i \in 1..Len(vs) : fields[i] = f])]

\* sections of MaxMixed fields with every combination of the integers 1..6
MixedSections(fields) ==
    {MixedSection(fields, vs) : vs \in [1..MaxMixed -> 1..6]}

MixedScoreInputs ==
    {[bg |-> DefaultBG, bp |-> bp, pr |-> DefaultPR] :
        bp \in MixedSections(BPFields)}
    \cup {[bg |-> DefaultBG, bp |-> DefaultBP, pr |-> pr] :
            pr \in MixedSections(PRFields)}

\* values the schema rejects but the function may still be handed: integers
\* outside 1..6, a bool, a float, a string
JBool(b) == [type |-> "bool", val |-> IF b THEN 1 ELSE 0]
JFloat == [type |-> "float", val |-> 0]
OutOfContractValues ==
    {JInt(0), JInt(7), JInt(-1), JBool(TRUE), JFloat, JStr}

\* sections of at most two fields in range plus one value out of contract
OutOfContractSections(fields) ==
    {SetItem(UniformSection(fields, k, v), fields[3], x) :
        k \in 0..2, v \in {1, 6}, x \in OutOfContractValues}

OutOfContractInputs ==
    {[bg |-> DefaultBG, bp |-> bp, pr |-> DefaultPR] :
        bp \in OutOfContractSections(BPFields)}
    \cup {[bg |-> DefaultBG, bp |-> DefaultBP, pr |-> pr] :
            pr \in OutOfContractSections(PRFields)}

\* the Retail scenario: revenue 200000 and 220000, profit 30000 and 35000,
\* ten employees
ScenarioInput ==
    [bg |-> business_goals_record("Retail", Num(10), Num(200000), Num(30000),
                                  Num(220000), Num(35000)),
     bp |-> DefaultBP, pr |-> DefaultPR]

Inputs ==
    FinancialInputs \cup MissingFieldInputs \cup ScoreInputs
    \cup PartialReadinessInputs \cup MixedScoreInputs \cup OutOfContractInputs
    \cup {ScenarioInput}

(***************************************************************************)
(* Objects.  An invocation p receives the mapping arg(p), whose nested     *)
(* mappings are objects of their own; it allocates enr(p) (the copy of     *)
(* line 22) and calc(p) (the dict of line 30).                             *)
(***************************************************************************)
Procs == {1, 2}

arg(p) == <<"arg", p>>
meta(p) == <<"metadata", p>>
ad(p) == <<"assessment_data", p>>
bgo(p) == <<"business_goals_and_financials", p>>
bpo(p) == <<"business_performance_and_transferability", p>>
pro(p) == <<"personal_readiness_for_business_owners", p>>
enr(p) == <<"enriched_data", p>>
\* one assessment_calculations object for the whole module, not one per call
calc_shared_by_all_calls(p) == <<"assessment_calculations", 0>>
calc(p) == <<"assessment_calculations", p>>

\* the objects of the record in handed to invocation p
InputHeap(p, in) ==
    (arg(p) :> [metadata |-> meta(p), first_name |-> "Ann", last_name |-> "Lee",
                email |-> "ann@example.com", phone_number |-> "+15551234567",
                assessment_data |-> ad(p)])
    @@ (meta(p) :> [date_sent |-> "2024-01-01T00:00:00", source |-> "web",
                    version |-> "1.0"])
    @@ (ad(p) :> [business_goals_and_financials |-> bgo(p),
                  business_performance_and_transferability |-> bpo(p),
                  personal_readiness_for_business_owners |-> pro(p)])
    @@ (bgo(p) :> in.bg)
    @@ (bpo(p) :> in.bp)
    @@ (pro(p) :> in.pr)

\* the function is called directly, not through lambda_handler
HandlerIdle ==
    /\ hpc = "idle"
    /\ hloc = EmptyDict
    /\ world = EmptyDict

\* one invocation, of any input, about to execute line 22
Init ==
    \E in \in Inputs :
        /\ heap = InputHeap(1, in)
        /\ heap0 = heap
        /\ pc = [p \in Procs |-> IF p = 1 THEN "L22" ELSE "idle"]
        /\ loc = [p \in Procs |->
                    IF p = 1 THEN [assessment_data |-> arg(1)] ELSE EmptyDict]
        /\ HandlerIdle

(***************************************************************************)
(* Statements.                                                             *)
(***************************************************************************)
Goto(p, l) == [pc EXCEPT ![p] = l]
Bind(p, name, v) == [loc EXCEPT ![p] = SetItem(@, name, v)]

\* an exception leaves the function: nothing is returned
Raise(p, e) ==
    /\ pc' = Goto(p, "raised")
    /\ loc' = Bind(p, "exc", e)
    /\ UNCHANGED <<heap, heap0>>

\* name = value, falling through to statement next
Assign(p, next, name, v) ==
    /\ loc' = Bind(p, name, v)
    /\ pc' = Goto(p, next)
    /\ UNCHANGED <<heap, heap0>>

\* assessment_calculations[key] = value.  The right-hand side is evaluated
\* first: a subscript that does not find its key (~ok) raises KeyError, a
\* division by zero raises ZeroDivisionError, a result too large for a float
\* raises OverflowError, and then nothing is stored
SetCalc(p, here, next, key, ok, value) ==
    /\ pc[p] = here
    /\ IF ~ok THEN Raise(p, "KeyError")
       ELSE IF value = DivisionByZero THEN Raise(p, "ZeroDivisionError")
       ELSE IF value = TooLargeForFloat THEN Raise(p, "OverflowError")
       ELSE /\ heap' = [heap EXCEPT ![loc[p].assessment_calculations] =
                            SetItem(@, key, value)]
            /\ pc' = Goto(p, next)
            /\ UNCHANGED <<loc, heap0>>

\* enriched_data = assessment_data: no copy, the same object
DictAlias(h, src, new) == [heap |-> h, ref |-> src]

\* dict.copy(): a new object new holding the items of src (a shallow copy)
DictCopy(h, src, new) == [heap |-> (new :> h[src]) @@ h, ref |-> new]

\* line 22: enriched_data = assessment_data.copy()
L22_copy(p) ==
    /\ pc[p] = "L22"
    /\ LET c == DictCopy(heap, loc[p].assessment_data, enr(p))
       IN  /\ heap' = c.heap
           /\ loc' = Bind(p, "enriched_data", c.ref)
    /\ pc' = Goto(p, "L25")
    /\ UNCHANGED heap0

\* lines 25-27: name = assessment_data['assessment_data'][section]
ExtractSection(p, here, next, name, section) ==
    /\ pc[p] = here
    /\ LET top == heap[loc[p].assessment_data]
       IN  IF /\ "assessment_data" \in DOMAIN top
              /\ section \in DOMAIN heap[top.assessment_data]
           THEN Assign(p, next, name, heap[top.assessment_data][section])
           ELSE Raise(p, "KeyError")

L25_business_goals(p) ==
    ExtractSection(p, "L25", "L26", "business_goals",
                   "business_goals_and_financials")
L26_business_performance(p) ==
    ExtractSection(p, "L26", "L27", "business_performance",
                   "business_performance_and_transferability")
L27_personal_readiness(p) ==
    ExtractSection(p, "L27", "L30", "personal_readiness",
                   "personal_readiness_for_business_owners")

\* line 30 continuing the section the argument already carries, if any:
\* assessment_calculations = assessment_data.get('assessment_calculations', {})
L30_reuse_section_of_argument(p) ==
    /\ pc[p] = "L30"
    /\ LET top == heap[loc[p].assessment_data]
       IN  IF "assessment_calculations" \in DOMAIN top
           THEN /\ heap' = heap
                /\ loc' = Bind(p, "assessment_calculations",
                               top.assessment_calculations)
           ELSE /\ heap' = (calc(p) :> EmptyDict) @@ heap
                /\ loc' = Bind(p, "assessment_calculations", calc(p))
    /\ pc' = Goto(p, "L33")
    /\ UNCHANGED heap0

\* line 30: assessment_calculations = {}
L30_assessment_calculations(p) ==
    /\ pc[p] = "L30"
    /\ heap' = (calc(p) :> EmptyDict) @@ heap
    /\ loc' = Bind(p, "assessment_calculations", calc(p))
    /\ pc' = Goto(p, "L33")
    /\ UNCHANGED heap0

\* line 33: industry = business_goals['company_industry']
L33_industry(p) ==
    /\ pc[p] = "L33"
    /\ LET bg == heap[loc[p].business_goals]
       IN  IF "company_industry" \in DOMAIN bg
           THEN Assign(p, "L34", "industry", bg.company_industry)
           ELSE Raise(p, "KeyError")

\* lines 34-47: industry_data = {...}, a table built by this invocation
L34_industry_data(p) ==
    /\ pc[p] = "L34"
    /\ Assign(p, "L49", "industry_data", industry_data)

\* line 49 falling back to the first row of the table
selected_industry_default_retail(table, industry) ==
    DictGet(table, industry, table["Retail"])

\* line 49: industry_data.get(industry, industry_data['Other'])
selected_industry(table, industry) == DictGet(table, industry, table["Other"])

L49_selected_industry(p) ==
    /\ pc[p] = "L49"
    /\ Assign(p, "L50", "selected_industry",
              selected_industry(loc[p].industry_data, loc[p].industry))

\* lines 50, 51
L50_ebitda_multiple(p) ==
    SetCalc(p, "L50", "L51", "ebitda_multiple", TRUE,
            loc[p].selected_industry.multiple)
L51_ebitda_margin(p) ==
    SetCalc(p, "L51", "L54", "ebitda_margin", TRUE,
            loc[p].selected_industry.margin)

(***************************************************************************)
(* Lines 53-89: the financial fields.  bg is the business_goals mapping,   *)
(* ac the assessment_calculations mapping built so far.                    *)
(***************************************************************************)
\* the keys that "d[numk] / d[denk] if d[denk] > 0 else 0" subscripts d with:
\* the condition is evaluated first, the quotient only when it holds
GuardedReads(d, numk, denk) ==
    IF denk \in DOMAIN d /\ RGt(d[denk], Zero) THEN {denk, numk} ELSE {denk}

\* the quotient of lines 54-57 without its guard
revenue_per_employee_unguarded(bg) ==
    RDiv(bg["last_year_revenue"], bg["number_of_employees"])

\* lines 54-57 dividing this year's estimated revenue
revenue_per_employee_of_current_year(bg) ==
    IF RGt(bg["number_of_employees"], Zero)
    THEN RDiv(bg["current_year_estimated_revenue"], bg["number_of_employees"])
    ELSE Zero

\* lines 54-57 dividing the owner's own estimate of the business value
revenue_per_employee_of_business_value(bg) ==
    IF RGt(bg["number_of_employees"], Zero)
    THEN RDiv(bg["current_business_value"], bg["number_of_employees"])
    ELSE Zero

\* lines 54-57
revenue_per_employee(bg) ==
    IF RGt(bg["number_of_employees"], Zero)
    THEN RDiv(bg["last_year_revenue"], bg["number_of_employees"])
    ELSE Zero

\* lines 58-61 as a percentage
last_year_profit_percentage_times_100(bg) ==
    IF RGt(bg["last_year_revenue"], Zero)
    THEN RMul(RDiv(bg["last_year_profit"], bg["last_year_revenue"]), Num(100))
    ELSE Zero

\* lines 58-61
last_year_profit_percentage(bg) ==
    IF RGt(bg["last_year_revenue"], Zero)
    THEN RDiv(bg["last_year_profit"], bg["last_year_revenue"])
    ELSE Zero

\* lines 62-65
current_year_profit_percentage(bg) ==
    IF RGt(bg["current_year_estimated_revenue"], Zero)
    THEN RDiv(bg["current_year_estimated_profit"],
              bg["current_year_estimated_revenue"])
    ELSE Zero

\* lines 66-68 guarded, like line 54, by the number of employees
two_year_average_revenue_zero_without_employees(bg) ==
    IF RGt(bg["number_of_employees"], Zero)
    THEN RDiv(RAdd(bg["current_year_estimated_revenue"],
                   bg["last_year_revenue"]), Num(2))
    ELSE Zero

\* lines 66-68
two_year_average_revenue(bg) ==
    RDiv(RAdd(bg["current_year_estimated_revenue"], bg["last_year_revenue"]),
         Num(2))

\* lines 69-71
two_year_average_profit(bg) ==
    RDiv(RAdd(bg["current_year_estimated_profit"], bg["last_year_profit"]),
         Num(2))

\* lines 72-75 guarded by this year's profit instead of the average
two_year_average_self_reported_multiple_guarded_by_current_year(ac) ==
    IF RGt(ac["current_year_profit_percentage"], Zero)
    THEN RDiv(ac["two_year_average_revenue"], ac["two_year_average_profit"])
    ELSE Zero

\* lines 72-75
two_year_average_self_reported_multiple(ac) ==
    IF RGt(ac["two_year_average_profit"], Zero)
    THEN RDiv(ac["two_year_average_revenue"], ac["two_year_average_profit"])
    ELSE Zero

\* line 76 with the low end at six times the average profit
range_of_value_low_six_times(ac) == RMul(ac["two_year_average_profit"], Num(6))

\* line 76
range_of_value_low(ac) == RMul(ac["two_year_average_profit"], Num(3))

\* lines 77-79 taking the margin as a fraction, without the division by 100
current_value_information_provided_margin_as_fraction(ac) ==
    RMul(ac["two_year_average_profit"], ac["ebitda_margin"])

\* lines 77-79
current_value_information_provided(ac) ==
    RDiv(RMul(ac["two_year_average_profit"], ac["ebitda_margin"]), Num(100))

\* lines 80-82 without the factor 1.4
range_of_value_high_without_optimism(ac) ==
    RMul(ac["two_year_average_profit"], ac["ebitda_multiple"])

\* lines 80-82: 1.4 is 14/10
range_of_value_high(ac) ==
    RMul(RMul(ac["two_year_average_profit"], ac["ebitda_multiple"]),
         Rat(14, 10))

\* lines 83-86 clamped at 0
profit_gap_surplus_clamped(bg, ac) ==
    LET x == RSub(RMul(bg["current_year_estimated_revenue"],
                       ac["last_year_profit_percentage"]),
                  RDiv(RMul(bg["current_year_estimated_revenue"],
                            ac["ebitda_margin"]), Num(100)))
    IN  IF x.num < 0 THEN Zero ELSE x

\* lines 83-86
profit_gap_surplus(bg, ac) ==
    RSub(RMul(bg["current_year_estimated_revenue"],
              ac["last_year_profit_percentage"]),
         RDiv(RMul(bg["current_year_estimated_revenue"], ac["ebitda_margin"]),
              Num(100)))

\* lines 87-89
exit_planning_value_opportunity(ac) ==
    RSub(ac["range_of_value_high"], ac["current_value_information_provided"])

BG(p) == heap[loc[p].business_goals]
AC(p) == heap[loc[p].assessment_calculations]

\* line 54 reading business_goals with .get(key, 0)
L54_missing_read_as_zero(p) ==
    SetCalc(p, "L54", "L58", "revenue_per_employee", TRUE,
            revenue_per_employee(
                [k \in DOMAIN BG(p) \cup {"last_year_revenue", "number_of_employees"}
                    |-> IF k \in DOMAIN BG(p) THEN BG(p)[k] ELSE Zero]))

L54_revenue_per_employee(p) ==
    SetCalc(p, "L54", "L58", "revenue_per_employee",
            GuardedReads(BG(p), "last_year_revenue", "number_of_employees")
                \subseteq DOMAIN BG(p),
            revenue_per_employee(BG(p)))

L58_last_year_profit_percentage(p) ==
    SetCalc(p, "L58", "L62", "last_year_profit_percentage",
            GuardedReads(BG(p), "last_year_profit", "last_year_revenue")
                \subseteq DOMAIN BG(p),
            last_year_profit_percentage(BG(p)))

L62_current_year_profit_percentage(p) ==
    SetCalc(p, "L62", "L66", "current_year_profit_percentage",
            GuardedReads(BG(p), "current_year_estimated_profit",
                         "current_year_estimated_revenue")
                \subseteq DOMAIN BG(p),
            current_year_profit_percentage(BG(p)))

L66_two_year_average_revenue(p) ==
    SetCalc(p, "L66", "L69", "two_year_average_revenue",
            {"current_year_estimated_revenue", "last_year_revenue"}
                \subseteq DOMAIN BG(p),
            two_year_average_revenue(BG(p)))

L69_two_year_average_profit(p) ==
    SetCalc(p, "L69", "L72", "two_year_average_profit",
            {"current_year_estimated_profit", "last_year_profit"}
                \subseteq DOMAIN BG(p),
            two_year_average_profit(BG(p)))

L72_two_year_average_self_reported_multiple(p) ==
    SetCalc(p, "L72", "L76", "two_year_average_self_reported_multiple",
            GuardedReads(AC(p), "two_year_average_revenue",
                         "two_year_average_profit") \subseteq DOMAIN AC(p),
            two_year_average_self_reported_multiple(AC(p)))

L76_range_of_value_low(p) ==
    SetCalc(p, "L76", "L77", "range_of_value_low",
            "two_year_average_profit" \in DOMAIN AC(p),
            range_of_value_low(AC(p)))

L77_current_value_information_provided(p) ==
    SetCalc(p, "L77", "L80", "current_value_information_provided",
            {"two_year_average_profit", "ebitda_margin"} \subseteq DOMAIN AC(p),
            current_value_information_provided(AC(p)))

L80_range_of_value_high(p) ==
    SetCalc(p, "L80", "L83", "range_of_value_high",
            {"two_year_average_profit", "ebitda_multiple"}
                \subseteq DOMAIN AC(p),
            range_of_value_high(AC(p)))

L83_profit_gap_surplus(p) ==
    SetCalc(p, "L83", "L87", "profit_gap_surplus",
            /\ "current_year_estimated_revenue" \in DOMAIN BG(p)
            /\ {"last_year_profit_percentage", "ebitda_margin"}
                   \subseteq DOMAIN AC(p),
            profit_gap_surplus(BG(p), AC(p)))

\* line 87 storing under the key of line 80
L87_stored_under_range_of_value_high(p) ==
    SetCalc(p, "L87", "L93", "range_of_value_high",
            {"range_of_value_high", "current_value_information_provided"}
                \subseteq DOMAIN AC(p),
            exit_planning_value_opportunity(AC(p)))

L87_exit_planning_value_opportunity(p) ==
    SetCalc(p, "L87", "L93", "exit_planning_value_opportunity",
            {"range_of_value_high", "current_value_information_provided"}
                \subseteq DOMAIN AC(p),
            exit_planning_value_opportunity(AC(p)))

(***************************************************************************)
(* Lines 91-106: the two percentage scores.                                *)
(***************************************************************************)
\* [value for value in section.values() if isinstance(value, int)]: the kept
\* values, indexed by the key each came from (only sum and len are taken)
IntValues(section) ==
    [k \in {x \in DOMAIN section : IsInstanceInt(section[x])} |->
        section[k].val]

RECURSIVE SumValues(_)
SumValues(f) ==
    IF DOMAIN f = {} THEN 0
    ELSE LET k == CHOOSE x \in DOMAIN f : TRUE
         IN  f[k] + SumValues(DelItem(f, k))

LenValues(f) == Cardinality(DOMAIN f)

\* len(values) * 5: the maximum of a five-point scale
max_possible_of_five_point_scale(values) == LenValues(values) * 5

\* len(values) * max(values): the maximum taken from the answers given
max_possible_of_largest_value(values) ==
    IF DOMAIN values = {} THEN 0
    ELSE LenValues(values)
         * (CHOOSE m \in {values[k] : k \in DOMAIN values} :
                \A k \in DOMAIN values : values[k] <= m)

\* len(values) * 6
max_possible(values) == LenValues(values) * 6

\* the percentage cut off after the first decimal, not rounded
percentage_score_truncated(total, maxp) ==
    LET x == IF maxp > 0 THEN RMul(RDiv(Num(total), Num(maxp)), Num(100))
             ELSE Zero
    IN  Rat((x.num * 10) \div x.den, 10)

\* round((total / max_possible * 100) if max_possible > 0 else 0, 1)
percentage_score(total, maxp) ==
    Round1(IF maxp > 0 THEN RMul(RDiv(Num(total), Num(maxp)), Num(100))
           ELSE Zero)

L93_business_performance_values(p) ==
    /\ pc[p] = "L93"
    /\ Assign(p, "L94", "business_performance_values",
              IntValues(heap[loc[p].business_performance]))

L94_business_performance_total(p) ==
    /\ pc[p] = "L94"
    /\ Assign(p, "L95", "business_performance_total",
              SumValues(loc[p].business_performance_values))

L95_business_performance_max_possible(p) ==
    /\ pc[p] = "L95"
    /\ Assign(p, "L96", "business_performance_max_possible",
              max_possible(loc[p].business_performance_values))

L96_company_transferability_score(p) ==
    SetCalc(p, "L96", "L101", "company_transferability_score", TRUE,
            percentage_score(loc[p].business_performance_total,
                             loc[p].business_performance_max_possible))

L101_personal_readiness_values(p) ==
    /\ pc[p] = "L101"
    /\ Assign(p, "L102", "personal_readiness_values",
              IntValues(heap[loc[p].personal_readiness]))

L102_personal_readiness_total(p) ==
    /\ pc[p] = "L102"
    /\ Assign(p, "L103", "personal_readiness_total",
              SumValues(loc[p].personal_readiness_values))

\* line 103 with the maximum of all ten fields, whatever is present
L103_max_possible_of_ten_fields(p) ==
    /\ pc[p] = "L103"
    /\ Assign(p, "L104", "personal_readiness_max_possible", Len(PRFields) * 6)

L103_personal_readiness_max_possible(p) ==
    /\ pc[p] = "L103"
    /\ Assign(p, "L104", "personal_readiness_max_possible",
              max_possible(loc[p].personal_readiness_values))

L104_personal_readiness_score(p) ==
    SetCalc(p, "L104", "L109", "personal_readiness_score", TRUE,
            percentage_score(loc[p].personal_readiness_total,
                             loc[p].personal_readiness_max_possible))

\* line 109 also stamping the result with the number of calls finished so far
L109_attach_with_call_count(p) ==
    /\ pc[p] = "L109"
    /\ heap' = [heap EXCEPT ![loc[p].enriched_data] =
                    SetItem(SetItem(@, "assessment_calculations",
                                    loc[p].assessment_calculations),
                            "call_count",
                            Cardinality({q \in DOMAIN pc :
                                            pc[q] \in {"returned", "raised"}}))]
    /\ pc' = Goto(p, "L111")
    /\ UNCHANGED <<loc, heap0>>

\* line 109: enriched_data['assessment_calculations'] = assessment_calculations
L109_attach(p) ==
    /\ pc[p] = "L109"
    /\ heap' = [heap EXCEPT ![loc[p].enriched_data] =
                    SetItem(@, "assessment_calculations",
                            loc[p].assessment_calculations)]
    /\ pc' = Goto(p, "L111")
    /\ UNCHANGED <<loc, heap0>>

\* line 111: return enriched_data
L111_return(p) ==
    /\ pc[p] = "L111"
    /\ loc' = Bind(p, "return", loc[p].enriched_data)
    /\ pc' = Goto(p, "returned")
    /\ UNCHANGED <<heap, heap0>>

calculate_assessment_scores(p) ==
    \/ L22_copy(p)
    \/ L25_business_goals(p)
    \/ L26_business_performance(p)
    \/ L27_personal_readiness(p)
    \/ L30_assessment_calculations(p)
    \/ L33_industry(p)
    \/ L34_industry_data(p)
    \/ L49_selected_industry(p)
    \/ L50_ebitda_multiple(p)
    \/ L51_ebitda_margin(p)
    \/ L54_revenue_per_employee(p)
    \/ L58_last_year_profit_percentage(p)
    \/ L62_current_year_profit_percentage(p)
    \/ L66_two_year_average_revenue(p)
    \/ L69_two_year_average_profit(p)
    \/ L72_two_year_average_self_reported_multiple(p)
    \/ L76_range_of_value_low(p)
    \/ L77_current_value_information_provided(p)
    \/ L80_range_of_value_high(p)
    \/ L83_profit_gap_surplus(p)
    \/ L87_exit_planning_value_opportunity(p)
    \/ L93_business_performance_values(p)
    \/ L94_business_performance_total(p)
    \/ L95_business_performance_max_possible(p)
    \/ L96_company_transferability_score(p)
    \/ L101_personal_readiness_values(p)
    \/ L102_personal_readiness_total(p)
    \/ L103_personal_readiness_max_possible(p)
    \/ L104_personal_readiness_score(p)
    \/ L109_attach(p)
    \/ L111_return(p)

Next ==
    /\ \E p \in Procs : calculate_assessment_scores(p)
    /\ UNCHANGED hvars

Spec == Init /\ [][Next]_vars

(***************************************************************************)
(* Properties.                                                             *)
(***************************************************************************)
Started == {p \in Procs : pc[p] # "idle"}
Returned(p) == pc[p] = "returned"
Raised(p) == pc[p] = "raised"

\* the record invocation p was called with, as it was before the call
InputTop(p) == heap0[arg(p)]
InputBG(p) == heap0[bgo(p)]
InputBP(p) == heap0[bpo(p)]
InputPR(p) == heap0[pro(p)]

\* the mapping p returned and its assessment_calculations section
Output(p) == heap[loc[p]["return"]]
OutputCalc(p) == heap[Output(p)["assessment_calculations"]]

\* assessment_calculations[key] has been assigned by p
Has(p, key) ==
    /\ "assessment_calculations" \in DOMAIN loc[p]
    /\ key \in DOMAIN AC(p)

\* the input has every key of business_goals that the function subscripts
WellFormed(p) ==
    BGNumericRequired \cup {"company_industry"} \subseteq DOMAIN InputBG(p)

\* the derived fields named by steps 1-14 of the calculation
DerivedFields ==
    {"ebitda_multiple", "ebitda_margin", "revenue_per_employee",
     "last_year_profit_percentage", "current_year_profit_percentage",
     "two_year_average_revenue", "two_year_average_profit",
     "two_year_average_self_reported_multiple", "range_of_value_low",
     "current_value_information_provided", "range_of_value_high",
     "profit_gap_surplus", "exit_planning_value_opportunity",
     "company_transferability_score", "personal_readiness_score"}

NoIntegerEntry(section) ==
    \A k \in DOMAIN section : section[k].type \notin {"int", "bool"}

C2_Original_ExactlyFourteenFields ==
    \A p \in Started :
        Returned(p) => Cardinality(DOMAIN OutputCalc(p)) = 14

\* C2 (amended): after every successful run the key set of
\* assessment_calculations is exactly the fifteen fields that steps 1-14 name
\* (step 1 yields two, ebitda_multiple and ebitda_margin): none is missing and
\* there is no other key.
C2_ExactlyTheFifteenDerivedFields ==
    \A p \in Started :
        Returned(p) =>
            /\ DOMAIN OutputCalc(p) = DerivedFields
            /\ Cardinality(DOMAIN OutputCalc(p)) = 15

\* a run has returned a section of fifteen keys
C2_Witness ==
    \E p \in Started :
        /\ Returned(p)
        /\ Cardinality(DOMAIN OutputCalc(p)) = 15
        /\ {"ebitda_multiple", "ebitda_margin"} \subseteq DOMAIN OutputCalc(p)

MissingRequired(p) == BGNumericRequired \ DOMAIN InputBG(p)

\* the keys of business_goals that the right-hand side of each field reads
ReadsOf(bg) ==
    [revenue_per_employee |->
        GuardedReads(bg, "last_year_revenue", "number_of_employees"),
     last_year_profit_percentage |->
        GuardedReads(bg, "last_year_profit", "last_year_revenue"),
     current_year_profit_percentage |->
        GuardedReads(bg, "current_year_estimated_profit",
                     "current_year_estimated_revenue"),
     two_year_average_revenue |->
        {"current_year_estimated_revenue", "last_year_revenue"},
     two_year_average_profit |->
        {"current_year_estimated_profit", "last_year_profit"}]

\* C4: when a required numeric field of business_goals_and_financials is
\* absent the function raises (KeyError) and returns nothing: it never gets
\* past the two-year averages, no field whose right-hand side reads the absent
\* key is ever stored (the key is not taken as 0), and no mapping carries an
\* assessment_calculations section.
C4_MissingFieldRaises ==
    \A p \in Started :
        MissingRequired(p) # {} =>
            /\ ~Returned(p)
            /\ "return" \notin DOMAIN loc[p]
            /\ pc[p] \in {"L22", "L25", "L26", "L27", "L30", "L33", "L34",
                          "L49", "L50", "L51", "L54", "L58", "L62", "L66",
                          "L69", "raised"}
            /\ Raised(p) => loc[p]["exc"] = "KeyError"
            /\ \A f \in DOMAIN ReadsOf(InputBG(p)) :
                   Has(p, f) => ReadsOf(InputBG(p))[f] \cap MissingRequired(p) = {}
            /\ \A o \in DOMAIN heap :
                   "assessment_calculations" \notin DOMAIN heap[o]

\* last_year_profit is absent and last_year_revenue is 0: line 58 does not
\* read it, line 69 does and raises
C4_Witness ==
    \E p \in Started :
        /\ Raised(p)
        /\ loc[p]["exc"] = "KeyError"
        /\ MissingRequired(p) = {"last_year_profit"}
        /\ Has(p, "two_year_average_revenue")
        /\ ~Has(p, "two_year_average_profit")

\* the benchmark table as the specification prints it (tenths)
SpecBenchmark ==
    {<<"Retail", 41, 150>>, <<"Restaurants", 36, 125>>,
     <<"Construction", 43, 180>>, <<"Manufacturing", 46, 192>>,
     <<"Professional Services", 45, 267>>,
     <<"Healthcare (Non-Medical)", 50, 222>>, <<"E-commerce", 48, 203>>,
     <<"Wholesale/Distribution", 42, 149>>, <<"Auto Repair", 38, 177>>,
     <<"Beauty/Personal Care", 37, 154>>, <<"IT Services", 53, 256>>,
     <<"Other", 41, 175>>}

SpecRow(ind) ==
    IF \E r \in SpecBenchmark : r[1] = ind
    THEN CHOOSE r \in SpecBenchmark : r[1] = ind
    ELSE <<"Other", 41, 175>>

\* C5: the lookup is total: for each of the twelve industries of the table
\* ebitda_multiple and ebitda_margin are that row's values, for any other
\* string they are the Other row (4.1 / 17.5), and a record that has a
\* company_industry never fails before both are stored.
C5_IndustryLookupTotal ==
    \A p \in Started :
        "company_industry" \in DOMAIN InputBG(p) =>
            LET row == SpecRow(InputBG(p)["company_industry"])
            IN  /\ Cardinality(SpecBenchmark) = 12
                /\ Has(p, "ebitda_multiple") =>
                       AC(p)["ebitda_multiple"] = Rat(row[2], 10)
                /\ Has(p, "ebitda_margin") =>
                       AC(p)["ebitda_margin"] = Rat(row[3], 10)
                /\ Raised(p) => Has(p, "ebitda_margin")

\* an industry outside the table has been given the Other row
C5_Witness ==
    \E p \in Started :
        /\ Has(p, "ebitda_margin")
        /\ InputBG(p)["company_industry"] \in UnknownIndustries
        /\ AC(p)["ebitda_multiple"] = Rat(41, 10)
        /\ AC(p)["ebitda_margin"] = Rat(175, 10)

\* x = a / b, for b # 0, by cross-multiplication
IsQuotient(x, a, b) == x.num * b.num * a.den = a.num * x.den * b.den

\* C6: revenue_per_employee is last_year_revenue / number_of_employees when
\* number_of_employees > 0 and 0 when number_of_employees = 0, whatever the
\* revenue.
C6_RevenuePerEmployee ==
    \A p \in Started :
        Has(p, "revenue_per_employee") =>
            LET bg == InputBG(p)
                x == AC(p)["revenue_per_employee"]
            IN  IF bg["number_of_employees"].num > 0
                THEN IsQuotient(x, bg["last_year_revenue"],
                                bg["number_of_employees"])
                ELSE x = Zero

\* no employees and a positive revenue: the field is 0
C6_Witness ==
    \E p \in Started :
        /\ Has(p, "revenue_per_employee")
        /\ InputBG(p)["number_of_employees"] = Zero
        /\ "last_year_revenue" \in DOMAIN InputBG(p)
        /\ InputBG(p)["last_year_revenue"].num > 0
        /\ AC(p)["revenue_per_employee"] = Zero

\* C7: each yearly profit percentage is the fraction profit / revenue of its
\* own year, not multiplied by 100, when that revenue is > 0, and 0 when that
\* revenue is 0, whatever the profit.
C7_ProfitPercentages ==
    \A p \in Started :
        LET bg == InputBG(p)
        IN  /\ Has(p, "last_year_profit_percentage") =>
                LET x == AC(p)["last_year_profit_percentage"]
                IN  IF bg["last_year_revenue"].num > 0
                    THEN IsQuotient(x, bg["last_year_profit"],
                                    bg["last_year_revenue"])
                    ELSE x = Zero
            /\ Has(p, "current_year_profit_percentage") =>
                LET x == AC(p)["current_year_profit_percentage"]
                IN  IF bg["current_year_estimated_revenue"].num > 0
                    THEN IsQuotient(x, bg["current_year_estimated_profit"],
                                    bg["current_year_estimated_revenue"])
                    ELSE x = Zero

\* last year: revenue 0 with a positive profit gives 0; this year: profit 1 on
\* revenue 2 gives 1/2, not 50
C7_Witness ==
    \E p \in Started :
        /\ Has(p, "current_year_profit_percentage")
        /\ WellFormed(p)
        /\ InputBG(p)["last_year_revenue"] = Zero
        /\ InputBG(p)["last_year_profit"].num > 0
        /\ AC(p)["last_year_profit_percentage"] = Zero
        /\ InputBG(p)["current_year_estimated_revenue"] = Num(2)
        /\ InputBG(p)["current_year_estimated_profit"] = Num(1)
        /\ AC(p)["current_year_profit_percentage"] = Rat(1, 2)

\* C8: the two averages are the arithmetic means of this year's estimate and
\* last year's figure, and two_year_average_self_reported_multiple is average
\* revenue / average profit when the average profit is > 0 and 0 when it is 0.
C8_TwoYearAverages ==
    \A p \in Started :
        LET bg == InputBG(p)
        IN  /\ Has(p, "two_year_average_revenue") =>
                RMul(AC(p)["two_year_average_revenue"], Num(2)) =
                    RAdd(bg["current_year_estimated_revenue"],
                         bg["last_year_revenue"])
            /\ Has(p, "two_year_average_profit") =>
                RMul(AC(p)["two_year_average_profit"], Num(2)) =
                    RAdd(bg["current_year_estimated_profit"],
                         bg["last_year_profit"])
            /\ Has(p, "two_year_average_self_reported_multiple") =>
                LET x == AC(p)["two_year_average_self_reported_multiple"]
                    avgp == AC(p)["two_year_average_profit"]
                IN  IF avgp.num > 0
                    THEN IsQuotient(x, AC(p)["two_year_average_revenue"], avgp)
                    ELSE x = Zero

\* this year's profit is 0, last year's is not: the average is > 0 and the
\* multiple is the quotient
C8_Witness ==
    \E p \in Started :
        /\ Has(p, "two_year_average_self_reported_multiple")
        /\ InputBG(p)["current_year_estimated_profit"] = Zero
        /\ InputBG(p)["last_year_profit"] = Num(1)
        /\ AC(p)["two_year_average_profit"] = Rat(1, 2)
        /\ AC(p)["two_year_average_revenue"] = Num(1)
        /\ AC(p)["two_year_average_self_reported_multiple"] = Num(2)

\* C9: range_of_value_low = average profit * 3,
\* current_value_information_provided = average profit * ebitda_margin / 100,
\* range_of_value_high = average profit * ebitda_multiple * 1.4, with the
\* margin and multiple resolved for the record's industry.
C9_ValueRange ==
    \A p \in Started :
        LET avgp == AC(p)["two_year_average_profit"]
            row == SpecRow(InputBG(p)["company_industry"])
        IN  /\ Has(p, "range_of_value_low") =>
                AC(p)["range_of_value_low"] = Rat(3 * avgp.num, avgp.den)
            /\ Has(p, "current_value_information_provided") =>
                AC(p)["current_value_information_provided"] =
                    Rat(avgp.num * row[3], avgp.den * 1000)
            /\ Has(p, "range_of_value_high") =>
                AC(p)["range_of_value_high"] =
                    Rat(avgp.num * row[2] * 14, avgp.den * 100)

\* Retail, average profit 3/2: 4.5, 0.225 and 8.61
C9_Witness ==
    \E p \in Started :
        /\ Has(p, "range_of_value_high")
        /\ InputBG(p)["company_industry"] = "Retail"
        /\ AC(p)["two_year_average_profit"] = Rat(3, 2)
        /\ AC(p)["range_of_value_low"] = Rat(9, 2)
        /\ AC(p)["current_value_information_provided"] = Rat(225, 1000)
        /\ AC(p)["range_of_value_high"] = Rat(861, 100)

PairBP == UniformSection(BPFields, 2, 5)
PairPR == UniformSection(PRFields, 1, 2)

PairBases ==
    {[bg |-> business_goals_record("Retail", Num(1), Num(2), Num(1), Num(2), Num(1)),
      bp |-> PairBP, pr |-> PairPR],
     [bg |-> business_goals_record("Other", Num(2), Num(1), Num(1), Num(2), Num(2)),
      bp |-> PairBP, pr |-> PairPR],
     [bg |-> business_goals_record("IT Services", Num(2), Num(1), Num(2), Num(1), Zero),
      bp |-> UniformSection(BPFields, 1, 6), pr |-> EmptyDict]}

\* the record in with the figures named in keys set to 0
Zeroed(in, keys) ==
    [in EXCEPT !.bg = [k \in DOMAIN in.bg |->
                          IF k \in keys THEN Zero ELSE in.bg[k]]]

\* a record with one denominator at 0: no employees, no revenue in one of
\* the years, or no profit in either year
ZeroDenominatorVariants(in) ==
    {Zeroed(in, keys) :
        keys \in {{"number_of_employees"}, {"last_year_revenue"},
                  {"current_year_estimated_revenue"},
                  {"last_year_profit", "current_year_estimated_profit"}}}

\* the record in with other answers in both score sections
Rescored(in) ==
    [in EXCEPT !.bp = UniformSection(BPFields, 3, 2),
               !.pr = UniformSection(PRFields, 2, 6)]

\* the record in with other values in the fields of business_goals that the
\* calculation never subscripts
Unrelated(in) ==
    [in EXCEPT !.bg = [@ EXCEPT !.company_name = "Zenith",
                                !.current_business_value = Num(3),
                                !.target_sale_price = Num(5),
                                !.planned_exit_timeline = "5+ years",
                                !.would_accept_offer = "no",
                                !.business_readiness = "business is ready"]]

\* the record in as sent by another client at another time
OtherClientHeap(p, in) ==
    [InputHeap(p, in) EXCEPT
        ![arg(p)] = [@ EXCEPT !.first_name = "Bob", !.last_name = "Ray",
                              !.email = "bob@example.org",
                              !.phone_number = "+15557654321"],
        ![meta(p)] = [date_sent |-> "2025-06-30T12:00:00", source |-> "api",
                      version |-> "2.0"]]

\* a record whose score sections hold the integers of bpvs and of prvs
ScoredRecord(bpvs, prvs) ==
    [bg |-> DefaultBG, bp |-> MixedSection(BPFields, bpvs),
     pr |-> MixedSection(PRFields, prvs)]

\* the whole section with every field at 6, but for the first field at v
AllSixButFirst(fields, v) ==
    SetItem(UniformSection(fields, Len(fields), 6), fields[1], JInt(v))

\* two records of which the second has one entry of each section higher: a
\* section of two (one) fields, and the whole section one step from all 6
RaisedEntryPairs ==
    {<<ScoredRecord(<<t[1], t[3]>>, <<t[1]>>),
       ScoredRecord(<<t[2], t[3]>>, <<t[2]>>)>> :
        t \in {u \in (1..6) \X (1..6) \X {1, 6} : u[1] < u[2]}}
    \cup {<<[bg |-> DefaultBG, bp |-> AllSixButFirst(BPFields, 5),
             pr |-> AllSixButFirst(PRFields, 5)],
            [bg |-> DefaultBG, bp |-> AllSixButFirst(BPFields, 6),
             pr |-> AllSixButFirst(PRFields, 6)]>>}

PairInputs ==
    {<<x, y>> : x \in PairBases, y \in PairBases} \cup
    UNION {{<<x, y>> : y \in ZeroDenominatorVariants(x)} : x \in PairBases} \cup
    {<<x, Rescored(x)>> : x \in PairBases} \cup
    RaisedEntryPairs

\* an assessment_calculations section left on a record by something else
stale(p) == <<"stale_calculations", p>>
StaleCalculations ==
    [ebitda_multiple |-> Num(99), personal_readiness_score |-> Num(1),
     legacy_score |-> Num(7)]

\* the record in, carrying a stale assessment_calculations section
StaleInputHeap(p, in) ==
    LET h == InputHeap(p, in)
    IN  [h EXCEPT ![arg(p)] = SetItem(@, "assessment_calculations", stale(p))]
        @@ (stale(p) :> StaleCalculations)

InitPair ==
    /\ HandlerIdle
    /\ \/ \E in \in PairInputs :
           \* two records, two calls
           /\ heap = InputHeap(1, in[1]) @@ InputHeap(2, in[2])
           /\ heap0 = heap
           /\ pc = [p \in Procs |-> "L22"]
           /\ loc = [p \in Procs |-> [assessment_data |-> arg(p)]]
       \/ \E in \in PairBases :
           \* two records that differ in what the calculation does not read
           /\ heap = InputHeap(1, in) @@ OtherClientHeap(2, Unrelated(in))
           /\ heap0 = heap
           /\ pc = [p \in Procs |-> "L22"]
           /\ loc = [p \in Procs |-> [assessment_data |-> arg(p)]]
       \/ \E in \in PairBases :
           \* one mapping, two calls
           /\ heap = InputHeap(1, in)
           /\ heap0 = heap
           /\ pc = [p \in Procs |-> "L22"]
           /\ loc = [p \in Procs |-> [assessment_data |-> arg(1)]]
       \/ \E in \in PairBases :
           \* one call; the second is made on what it returns
           /\ heap \in {InputHeap(1, in), StaleInputHeap(1, in)}
           /\ heap0 = heap
           /\ pc = [p \in Procs |-> IF p = 1 THEN "L22" ELSE "idle"]
           /\ loc = [p \in Procs |->
                       IF p = 1 THEN [assessment_data |-> arg(1)] ELSE EmptyDict]

\* calculate_assessment_scores(calculate_assessment_scores(x)): the second
\* call receives the mapping the first returned
call_on_returned ==
    /\ pc[1] = "returned"
    /\ pc[2] = "idle"
    /\ pc' = Goto(2, "L22")
    /\ loc' = Bind(2, "assessment_data", loc[1]["return"])
    /\ UNCHANGED <<heap, heap0, hvars>>

NextPair == Next \/ call_on_returned

SpecPair == InitPair /\ [][NextPair]_vars

\* the mapping invocation p was called with, when it existed at the start
CalledOnInput(p) ==
    /\ "assessment_data" \in DOMAIN loc[p]
    /\ loc[p].assessment_data \in DOMAIN heap0
ArgTop(p) == heap0[loc[p].assessment_data]
ArgSection(p, name) == heap0[heap0[ArgTop(p).assessment_data][name]]
ArgBG(p) == ArgSection(p, "business_goals_and_financials")
ArgBP(p) == ArgSection(p, "business_performance_and_transferability")
ArgPR(p) == ArgSection(p, "personal_readiness_for_business_owners")

\* the derived fields whose formula reads the figure key, directly or through
\* a field computed before
DependsOn(key) ==
    CASE key = "number_of_employees" -> {"revenue_per_employee"}
      [] key = "last_year_revenue" ->
            {"revenue_per_employee", "last_year_profit_percentage",
             "two_year_average_revenue",
             "two_year_average_self_reported_multiple", "profit_gap_surplus"}
      [] key = "current_year_estimated_revenue" ->
            {"current_year_profit_percentage", "two_year_average_revenue",
             "two_year_average_self_reported_multiple", "profit_gap_surplus"}
      [] key = "last_year_profit" ->
            {"last_year_profit_percentage", "two_year_average_profit",
             "two_year_average_self_reported_multiple", "range_of_value_low",
             "current_value_information_provided", "range_of_value_high",
             "profit_gap_surplus", "exit_planning_value_opportunity"}
      [] key = "current_year_estimated_profit" ->
            {"current_year_profit_percentage", "two_year_average_profit",
             "two_year_average_self_reported_multiple", "range_of_value_low",
             "current_value_information_provided", "range_of_value_high",
             "exit_planning_value_opportunity"}

\* the figures on which the records of p and q differ
DifferingFigures(p, q) ==
    {k \in BGNumericRequired : ArgBG(p)[k] # ArgBG(q)[k]}

\* the records of p and q are the same but for some of the five figures
SameButFigures(p, q) ==
    /\ CalledOnInput(p) /\ CalledOnInput(q)
    /\ ArgBP(p) = ArgBP(q)
    /\ ArgPR(p) = ArgPR(q)
    /\ DOMAIN ArgBG(p) = DOMAIN ArgBG(q)
    /\ \A k \in DOMAIN ArgBG(p) \ BGNumericRequired : ArgBG(p)[k] = ArgBG(q)[k]

\* C11: a zero denominator affects only the fields computed from it.  Two
\* records that differ only in figures (one has 0 employees, 0 revenue in a
\* year, or 0 profit in both years where the other has not) give the same
\* value to every derived field whose formula does not read a differing
\* figure: with 0 employees every field but revenue_per_employee is the same.
\* And the zero only zeroes the ratio it guards.
C11_ZeroDenominatorAffectsOnlyItsFields ==
    \A p \in Procs : \A q \in Procs :
        (/\ Returned(p) /\ Returned(q)
         /\ SameButFigures(p, q))
        => /\ \A f \in DerivedFields \ UNION {DependsOn(k) : k \in DifferingFigures(p, q)} :
                OutputCalc(p)[f] = OutputCalc(q)[f]
           /\ ArgBG(p)["number_of_employees"] = Zero
                => OutputCalc(p)["revenue_per_employee"] = Zero
           /\ ArgBG(p)["last_year_revenue"] = Zero
                => OutputCalc(p)["last_year_profit_percentage"] = Zero
           /\ ArgBG(p)["current_year_estimated_revenue"] = Zero
                => OutputCalc(p)["current_year_profit_percentage"] = Zero
           /\ (/\ ArgBG(p)["last_year_profit"] = Zero
               /\ ArgBG(p)["current_year_estimated_profit"] = Zero)
                => OutputCalc(p)["two_year_average_self_reported_multiple"] = Zero

\* both calls returned, the second on the first's record with 0 employees:
\* revenue_per_employee 2 and 0, the two-year average revenue 2 in both
C11_Witness ==
    /\ Returned(1) /\ Returned(2)
    /\ SameButFigures(1, 2)
    /\ DifferingFigures(1, 2) = {"number_of_employees"}
    /\ ArgBG(2)["number_of_employees"] = Zero
    /\ OutputCalc(1)["revenue_per_employee"] = Num(2)
    /\ OutputCalc(2)["revenue_per_employee"] = Zero
    /\ OutputCalc(2)["two_year_average_revenue"] = Num(2)

\* the keys of a record whose values are references to nested mappings
ReferenceKeys == {"metadata", "assessment_data", "assessment_calculations"}

\* the value of the record at r in heap h, nested mappings included: what
\* == compares on two Python dicts
RecordValue(h, r) ==
    LET top == h[r]
        sections == h[top.assessment_data]
    IN  [scalars |-> [k \in DOMAIN top \ ReferenceKeys |-> top[k]],
         metadata |-> h[top.metadata],
         assessment_data |-> [s \in DOMAIN sections |-> h[sections[s]]],
         assessment_calculations |->
            IF "assessment_calculations" \in DOMAIN top
            THEN <<h[top.assessment_calculations]>> ELSE <<>>]

InContract(section) ==
    \A k \in DOMAIN section :
        section[k].type = "int" /\ section[k].val \in 1..6

InPercentRange(x) == RLe(Zero, x) /\ RLe(x, Num(100))

\* C13: for every input that satisfies the contract (each present score an
\* integer in 1..6, a section possibly empty) company_transferability_score
\* and personal_readiness_score are both in [0.0, 100.0].
C13_ScoresWithinZeroAndHundred ==
    \A p \in Started :
        /\ (Has(p, "company_transferability_score") /\ InContract(InputBP(p)))
            => InPercentRange(AC(p)["company_transferability_score"])
        /\ (Has(p, "personal_readiness_score") /\ InContract(InputPR(p)))
            => InPercentRange(AC(p)["personal_readiness_score"])

\* both ends are reached: all 26 performance fields at 6 score 100, an empty
\* readiness section scores 0
C13_Witness ==
    \E p \in Started :
        /\ Returned(p)
        /\ InputBP(p) = UniformSection(BPFields, Len(BPFields), 6)
        /\ InputPR(p) = EmptyDict
        /\ OutputCalc(p)["company_transferability_score"] = Num(100)
        /\ OutputCalc(p)["personal_readiness_score"] = Zero

\* the entries of a section that isinstance(value, int) holds of (in Python
\* a bool is an int: True counts as the integer 1)
IntegerEntries(section) ==
    {k \in DOMAIN section : section[k].type \in {"int", "bool"}}

\* the number of integer entries of the section whose value is v
Tally(section, v) ==
    Cardinality({k \in IntegerEntries(section) : section[k].val = v})

\* the sum of the integer entries, for entries in -1..7
EntrySum(section) ==
    7 * Tally(section, 7) + 6 * Tally(section, 6) + 5 * Tally(section, 5)
    + 4 * Tally(section, 4) + 3 * Tally(section, 3) + 2 * Tally(section, 2)
    + Tally(section, 1) - Tally(section, -1)

\* x is total / (count * 6) * 100 to one decimal: a number of tenths t no
\* further than half a tenth from the exact value, even when exactly half
IsRoundedPercentage(x, total, count) ==
    /\ 10 % x.den = 0
    /\ LET t == x.num * (10 \div x.den)
           off == Abs(1000 * total - 6 * count * t)
       IN  /\ 2 * off <= 6 * count
           /\ 2 * off = 6 * count => t % 2 = 0

\* x is the score of the section: 0 without an integer entry
IsScoreOf(x, section) ==
    IF IntegerEntries(section) = {} THEN x = Zero
    ELSE IsRoundedPercentage(x, EntrySum(section),
                             Cardinality(IntegerEntries(section)))

\* C14: company_transferability_score is the sum of the integer entries of
\* the business-performance section divided by (their number * 6), times 100,
\* rounded to one decimal, and 0 when the section has no integer entry; an
\* entry that is not an integer (a string, a float) is in neither the sum nor
\* the count.  All 26 fields at 6 give 100.0, all 26 at 1 give 16.7.
C14_CompanyTransferabilityScore ==
    \A p \in Started :
        Has(p, "company_transferability_score") =>
            LET x == AC(p)["company_transferability_score"]
                bp == InputBP(p)
            IN  /\ IsScoreOf(x, bp)
                /\ bp = UniformSection(BPFields, Len(BPFields), 6) => x = Num(100)
                /\ bp = UniformSection(BPFields, Len(BPFields), 1) => x = Rat(167, 10)

\* all 26 fields at 1 have scored 16.7
C14_Witness ==
    \E p \in Started :
        /\ Has(p, "company_transferability_score")
        /\ InputBP(p) = UniformSection(BPFields, Len(BPFields), 1)
        /\ AC(p)["company_transferability_score"] = Rat(167, 10)

\* C15: personal_readiness_score follows the same rule over whatever fields
\* the personal-readiness section holds, the denominator being (number of
\* integer fields present) * 6, not 10 * 6: k of the 10 fields, all at 6,
\* score 100.0 for every k in 1..10, and an empty section scores 0.
C15_PersonalReadinessScore ==
    \A p \in Started :
        Has(p, "personal_readiness_score") =>
            LET x == AC(p)["personal_readiness_score"]
                pr == InputPR(p)
            IN  /\ IsScoreOf(x, pr)
                /\ \A k \in 1..Len(PRFields) :
                        pr = UniformSection(PRFields, k, 6) => x = Num(100)
                /\ pr = EmptyDict => x = Zero

\* two of the ten fields, both at 6, have scored 100.0
C15_Witness ==
    \E p \in Started :
        /\ Has(p, "personal_readiness_score")
        /\ InputPR(p) = UniformSection(PRFields, 2, 6)
        /\ AC(p)["personal_readiness_score"] = Num(100)

\* C16: the Retail scenario.  last_year_revenue 200000, last_year_profit
\* 30000, current_year_estimated_revenue 220000, current_year_estimated_profit
\* 35000 and 10 employees give revenue_per_employee 20000,
\* last_year_profit_percentage 0.15, current_year_profit_percentage
\* 35000/220000, two_year_average_revenue 210000, two_year_average_profit
\* 32500, range_of_value_low 97500, current_value_information_provided 4875
\* and range_of_value_high 186550.
C16_RetailScenario ==
    \A p \in Started :
        (Returned(p) /\ InputBG(p) = ScenarioInput.bg) =>
            LET r == OutputCalc(p)
            IN  /\ r["revenue_per_employee"] = Num(20000)
                /\ r["last_year_profit_percentage"] = Rat(15, 100)
                /\ r["current_year_profit_percentage"] = Rat(35000, 220000)
                /\ r["two_year_average_revenue"] = Num(210000)
                /\ r["two_year_average_profit"] = Num(32500)
                /\ r["range_of_value_low"] = Num(97500)
                /\ r["current_value_information_provided"] = Num(4875)
                /\ r["range_of_value_high"] = Num(186550)

\* the scenario has been computed to the end
C16_Witness ==
    \E p \in Started :
        /\ Returned(p)
        /\ InputBG(p) = ScenarioInput.bg
        /\ OutputCalc(p)["ebitda_multiple"] = Rat(41, 10)
        /\ OutputCalc(p)["range_of_value_high"] = Num(186550)

\* the section without its entries outside the declared range 1..6
InRangeOnly(section) ==
    [k \in {x \in IntegerEntries(section) : section[x].val \in 1..6} |->
        section[k]]

\* C19: score aggregation keeps only the entries whose value lies in the
\* declared range 1..6: an integer entry outside it (0, 7, a negative number)
\* is in neither the sum nor the count, like a non-integer entry, so each
\* score is the score of the section's in-range entries alone.
C19_OutOfRangeEntriesExcluded ==
    \A p \in Started :
        /\ Has(p, "company_transferability_score")
            => IsScoreOf(AC(p)["company_transferability_score"],
                         InRangeOnly(InputBP(p)))
        /\ Has(p, "personal_readiness_score")
            => IsScoreOf(AC(p)["personal_readiness_score"],
                         InRangeOnly(InputPR(p)))

\* the assessment_calculations mapping of one call running alone on the
\* sections bg, bp and pr (all keys present): the statements of lines 49-106
\* in their order, each reading what the ones before stored
RunAlone(bg, bp, pr) ==
    LET row == selected_industry(industry_data, bg["company_industry"])
        a1 == [ebitda_multiple |-> row.multiple,
               ebitda_margin |-> row.margin,
               revenue_per_employee |-> revenue_per_employee(bg),
               last_year_profit_percentage |-> last_year_profit_percentage(bg),
               current_year_profit_percentage |-> current_year_profit_percentage(bg),
               two_year_average_revenue |-> two_year_average_revenue(bg),
               two_year_average_profit |-> two_year_average_profit(bg)]
        a2 == SetItem(a1, "two_year_average_self_reported_multiple",
                      two_year_average_self_reported_multiple(a1))
        a3 == SetItem(a2, "range_of_value_low", range_of_value_low(a2))
        a4 == SetItem(a3, "current_value_information_provided",
                      current_value_information_provided(a3))
        a5 == SetItem(a4, "range_of_value_high", range_of_value_high(a4))
        a6 == SetItem(a5, "profit_gap_surplus", profit_gap_surplus(bg, a5))
        a7 == SetItem(a6, "exit_planning_value_opportunity",
                      exit_planning_value_opportunity(a6))
        a8 == SetItem(a7, "company_transferability_score",
                      percentage_score(SumValues(IntValues(bp)),
                                       max_possible(IntValues(bp))))
    IN  SetItem(a8, "personal_readiness_score",
                percentage_score(SumValues(IntValues(pr)),
                                 max_possible(IntValues(pr))))

\* the objects a call p allocates, once bound
Allocated(p) ==
    {loc[p][n] : n \in DOMAIN loc[p] \cap {"enriched_data", "assessment_calculations"}}

\* C17: invocations on different records interleave without interference.
\* Whatever the order of their statements, what each call has stored so far
\* and what it returns are what it computes running alone on its record; the
\* assessment_calculations mapping and the copy a call allocates are objects
\* of that call only, never another call's and never part of an input; and no
\* call changes a record it was handed, its own or another call's.
C17_InterleavedCallsDoNotInterfere ==
    /\ \A p \in Procs :
        (CalledOnInput(p) /\ "assessment_calculations" \in DOMAIN loc[p]) =>
            LET alone == RunAlone(ArgBG(p), ArgBP(p), ArgPR(p))
            IN  /\ DOMAIN AC(p) \subseteq DOMAIN alone
                /\ \A k \in DOMAIN AC(p) : AC(p)[k] = alone[k]
                /\ Returned(p) => OutputCalc(p) = alone
    /\ \A p \in Procs : \A q \in Procs \ {p} :
            Allocated(p) \cap Allocated(q) = {}
    /\ \A p \in Procs : Allocated(p) \cap DOMAIN heap0 = {}
    /\ \A o \in DOMAIN heap0 : heap[o] = heap0[o]

\* a Retail record and an IT Services record: the first call has returned
\* while the second is in the middle of the financial fields, and their
\* benchmark multiples differ
C17_Witness ==
    /\ Returned(1)
    /\ pc[2] = "L83"
    /\ CalledOnInput(1) /\ CalledOnInput(2)
    /\ ArgBG(1)["company_industry"] = "Retail"
    /\ ArgBG(2)["company_industry"] = "IT Services"
    /\ OutputCalc(1)["ebitda_multiple"] = Rat(41, 10)
    /\ AC(2)["ebitda_multiple"] = Rat(53, 10)
    /\ "profit_gap_surplus" \notin DOMAIN AC(2)

\* the mapping call p was handed, as it is now, and the section name of it
Argument(p) == heap[loc[p].assessment_data]
SectionNow(p, name) == heap[heap[Argument(p).assessment_data][name]]

\* call p was handed a record that already carries assessment_calculations
CarriesCalculations(p) ==
    /\ "assessment_data" \in DOMAIN loc[p]
    /\ "assessment_calculations" \in DOMAIN Argument(p)

\* C18: assessment_calculations is built from scratch by every call, never
\* merged with what the record carries.  Applied to a record that already has
\* an assessment_calculations key (the output of an earlier call, or a section
\* with stale and extra fields) the function returns a record whose section is
\* a new mapping holding exactly the derived fields computed from the three
\* input sections, and leaves the carried section as it was; so the function
\* applied to its own output returns a record equal to that output.
C18_CalculationsRebuiltFromScratch ==
    /\ \A p \in Procs :
        (Returned(p) /\ CarriesCalculations(p)) =>
            /\ Output(p)["assessment_calculations"]
                    # Argument(p)["assessment_calculations"]
            /\ OutputCalc(p) =
                    RunAlone(SectionNow(p, "business_goals_and_financials"),
                             SectionNow(p, "business_performance_and_transferability"),
                             SectionNow(p, "personal_readiness_for_business_owners"))
            /\ DOMAIN OutputCalc(p) = DerivedFields
            /\ stale(p) \in DOMAIN heap0 => heap[stale(p)] = heap0[stale(p)]
    /\ (Returned(1) /\ Returned(2) /\ loc[2].assessment_data = loc[1]["return"])
        => /\ RecordValue(heap, loc[2]["return"]) = RecordValue(heap, loc[1]["return"])
           /\ loc[2]["return"] # loc[1]["return"]

\* a record carrying a stale section (ebitda_multiple 99, a legacy_score) has
\* been processed, and the function has been applied again to the result
C18_Witness ==
    /\ Returned(1) /\ Returned(2)
    /\ stale(1) \in DOMAIN heap0
    /\ heap0[arg(1)]["assessment_calculations"] = stale(1)
    /\ loc[2].assessment_data = loc[1]["return"]
    /\ OutputCalc(1)["ebitda_multiple"] # Num(99)
    /\ "legacy_score" \notin DOMAIN OutputCalc(2)
    /\ OutputCalc(2) = OutputCalc(1)

(***************************************************************************)
(* lambda_handler (lambda_function.py).  The request body, once parsed, is *)
(* the record at arg(1); the calculation runs as invocation 1.             *)
(***************************************************************************)
\* datetime.utcnow().isoformat()
UtcNow == "2024-01-02T00:00:00"

validated == <<"validated_data", 0>>
new_metadata == <<"metadata", 0>>

\* records a request may carry: three the schema accepts (one of them with a
\* revenue beyond the range of a float) and four it rejects
HandlerRecords ==
    {[bg |-> DefaultBG, bp |-> DefaultBP, pr |-> DefaultPR],
     [bg |-> business_goals_record("Other", Zero, Zero, Zero, Zero, Zero),
      bp |-> UniformSection(BPFields, Len(BPFields), 6),
      pr |-> UniformSection(PRFields, Len(PRFields), 1)],
     [bg |-> business_goals_record("Retail", Num(1), TooLargeForFloat, Num(1),
                                   Num(2), Num(1)),
      bp |-> DefaultBP, pr |-> DefaultPR],
     [bg |-> DelItem(DefaultBG, "last_year_revenue"),
      bp |-> DefaultBP, pr |-> DefaultPR],
     [bg |-> business_goals_record("Unknown Industry", Num(1), Num(1), Num(1),
                                   Num(1), Num(1)),
      bp |-> DefaultBP, pr |-> DefaultPR],
     [bg |-> DefaultBG, bp |-> SetItem(DefaultBP, BPFields[1], JInt(7)),
      pr |-> DefaultPR],
     [bg |-> DefaultBG, bp |-> DefaultBP, pr |-> UniformSection(PRFields, 2, 6)]}

\* the metadata a request carries: all three fields, date_sent only, or none
MetadataForms == {"complete", "date_only", "absent"}

\* event: no body; a body that is not JSON; the bodies {} and [1]; a record
Events ==
    {[body |-> k] : k \in {"absent", "malformed", "empty", "array"}}
    \cup {[body |-> "object", record |-> r, metadata |-> m] :
            r \in HandlerRecords, m \in MetadataForms}

\* json.loads(event['body']) of a record: the objects of the parsed body
ParsedBody(ev) ==
    LET h == InputHeap(1, ev.record)
    IN  CASE ev.metadata = "complete" -> h
          [] ev.metadata = "date_only" ->
                [h EXCEPT ![meta(1)] = [date_sent |-> @.date_sent]]
          [] ev.metadata = "absent" ->
                [o \in DOMAIN h \ {meta(1)} |->
                    IF o = arg(1) THEN DelItem(h[o], "metadata") ELSE h[o]]

\* jsonschema.validate(instance, ASSESSMENT_SCHEMA) on the record at r: the
\* required keys and no others, an enumerated industry, figures that are
\* numbers >= 0, and every score an integer in 1..6.  (The strings of the
\* model satisfy the length, pattern and enum constraints on them.)
SchemaSection(section, fields) ==
    /\ DOMAIN section = {fields[i] : i \in 1..Len(fields)}
    /\ \A k \in DOMAIN section :
            section[k].type = "int" /\ section[k].val \in 1..6

SchemaAccepts(h, r) ==
    LET top == h[r]
    IN  /\ DOMAIN top = {"metadata", "first_name", "last_name", "email",
                         "phone_number", "assessment_data"}
        /\ "date_sent" \in DOMAIN h[top.metadata]
        /\ DOMAIN h[top.metadata] \subseteq {"date_sent", "source", "version"}
        /\ LET sections == h[top.assessment_data]
               bg == h[sections.business_goals_and_financials]
           IN  /\ DOMAIN sections =
                    {"business_goals_and_financials",
                     "business_performance_and_transferability",
                     "personal_readiness_for_business_owners"}
               /\ DOMAIN bg = DOMAIN DefaultBG
               /\ bg.company_industry \in KnownIndustries
               /\ \A k \in BGNumericRequired
                        \cup {"current_business_value", "target_sale_price"} :
                        bg[k].num >= 0
               /\ SchemaSection(h[sections.business_performance_and_transferability],
                                BPFields)
               /\ SchemaSection(h[sections.personal_readiness_for_business_owners],
                                PRFields)

\* validation.py lines 246-257: the defaults written into the metadata dict
MetadataDefaults(d) ==
    [k \in DOMAIN d \cup {"date_sent", "source", "version"} |->
        IF k \in DOMAIN d THEN d[k]
        ELSE IF k = "date_sent" THEN UtcNow
        ELSE IF k = "source" THEN "web" ELSE "1.0"]

\* validate_assessment_data(data): a shallow copy of data, a new metadata
\* dict if the copy has none, the defaults written into the metadata dict
\* the copy refers to, and the schema check; valid is FALSE where
\* ValidationError is raised
validate_assessment_data(h, data) ==
    LET c == DictCopy(h, data, validated)
        h1 == IF "metadata" \in DOMAIN c.heap[validated] THEN c.heap
              ELSE (new_metadata :> EmptyDict)
                   @@ [c.heap EXCEPT ![validated] =
                          SetItem(@, "metadata", new_metadata)]
        h2 == [h1 EXCEPT ![h1[validated].metadata] = MetadataDefaults(@)]
    IN  [heap |-> h2, ref |-> validated, valid |-> SchemaAccepts(h2, validated)]

\* one request, of any event, with or without the DYNAMODB_TABLE variable
InitHandler ==
    \E ev \in Events : \E table \in BOOLEAN :
        /\ heap = EmptyDict
        /\ heap0 = EmptyDict
        /\ pc = [p \in Procs |-> "idle"]
        /\ loc = [p \in Procs |-> EmptyDict]
        /\ hpc = "H35"
        /\ hloc = [event |-> ev]
        /\ world = [DYNAMODB_TABLE |-> table, uploads |-> {}, items |-> {},
                    files |-> {}, sent |-> {}]

\* return create_response(status_code, body)
create_response(status_code, body) ==
    /\ hloc' = SetItem(hloc, "response", [statusCode |-> status_code, body |-> body])
    /\ hpc' = "done"

\* results['steps'][step] = result, in the frame l
SetStep(l, step, result) ==
    [l EXCEPT !["results"]["steps"] = SetItem(@, step, result)]

\* lines 35-36
H35_body ==
    /\ hpc = "H35"
    /\ IF hloc.event.body = "absent"
       THEN create_response(400, [error |-> "Request body is required"])
       ELSE hpc' = "H40" /\ UNCHANGED hloc
    /\ UNCHANGED <<heap, pc, loc, heap0, world>>

\* lines 39-42
H40_json_loads ==
    /\ hpc = "H40"
    /\ IF hloc.event.body = "malformed"
       THEN /\ create_response(400, [error |-> "Invalid JSON in request body"])
            /\ UNCHANGED <<heap, heap0>>
       ELSE IF hloc.event.body = "object"
       THEN /\ heap' = ParsedBody(hloc.event)
            /\ heap0' = heap'
            /\ hloc' = SetItem(hloc, "body", arg(1))
            /\ hpc' = "H45"
       ELSE /\ hloc' = SetItem(hloc, "body", <<"literal", hloc.event.body>>)
            /\ hpc' = "H45"
            /\ UNCHANGED <<heap, heap0>>
    /\ UNCHANGED <<pc, loc, world>>

\* lines 45-46: {} is falsy, a record and [1] are not
H45_not_body ==
    /\ hpc = "H45"
    /\ IF hloc.event.body = "empty"
       THEN create_response(400, [error |-> "Request body cannot be empty"])
       ELSE hpc' = "H50" /\ UNCHANGED hloc
    /\ UNCHANGED <<heap, pc, loc, heap0, world>>

\* lines 49-56.  On a body that is not a mapping line 247 of validation.py
\* raises TypeError, which only the handler of line 193 catches
H50_validate ==
    /\ hpc = "H50"
    /\ IF hloc.event.body = "array"
       THEN /\ create_response(500, [error |-> "Internal server error"])
            /\ UNCHANGED heap
       ELSE LET v == validate_assessment_data(heap, hloc.body)
            IN  /\ heap' = v.heap
                /\ IF v.valid
                   THEN /\ hloc' = SetItem(hloc, "validated_data", v.ref)
                        /\ hpc' = "H59"
                   ELSE create_response(400, [error |-> "Invalid assessment data"])
    /\ UNCHANGED <<pc, loc, heap0, world>>

\* lines 59-66
H59_results ==
    /\ hpc = "H59"
    /\ hloc' = SetItem(SetItem(hloc, "record_id", "uuid-1"), "results",
                       [record_id |-> "uuid-1", timestamp |-> UtcNow,
                        steps |-> EmptyDict])
    /\ hpc' = "H72"
    /\ UNCHANGED <<heap, pc, loc, heap0, world>>

\* line 72: calculate_assessment_scores(validated_data) is entered
H72_call ==
    /\ hpc = "H72"
    /\ pc' = Goto(1, "L22")
    /\ loc' = Bind(1, "assessment_data", hloc.validated_data)
    /\ hpc' = "H73"
    /\ UNCHANGED <<heap, heap0, hloc, world>>

\* the except clause of line 78 missing: the fault reaches line 193
H73_fault_reaches_outer_handler ==
    /\ hpc = "H73"
    /\ pc[1] \in {"returned", "raised"}
    /\ IF pc[1] = "returned"
       THEN /\ hloc' = SetStep(SetItem(hloc, "enriched_data", loc[1]["return"]),
                               "calculations",
                               [status |-> "success", data |-> loc[1]["return"]])
            /\ hpc' = "H88"
       ELSE create_response(500, [error |-> "Internal server error"])
    /\ UNCHANGED <<heap, pc, loc, heap0, world>>

\* lines 72-83: the call has returned, or raised into the except clause
H73_calculations ==
    /\ hpc = "H73"
    /\ pc[1] \in {"returned", "raised"}
    /\ hloc' = IF pc[1] = "returned"
               THEN SetStep(SetItem(hloc, "enriched_data", loc[1]["return"]),
                            "calculations",
                            [status |-> "success", data |-> loc[1]["return"]])
               ELSE SetStep(hloc, "calculations",
                            [status |-> "error", error |-> loc[1].exc])
    /\ hpc' = "H88"
    /\ UNCHANGED <<heap, pc, loc, heap0, world>>

\* the name enriched_data is read while unbound: UnboundLocalError
Unbound == "enriched_data" \notin DOMAIN hloc

\* lines 87-98 with the upload tried again after an error result
H88_excel_tried_again_after_error ==
    /\ hpc = "H88"
    /\ IF Unbound
       THEN /\ hloc' = SetStep(hloc, "excel",
                               [status |-> "error", error |-> "UnboundLocalError"])
            /\ hpc' = "H104"
            /\ UNCHANGED world
       ELSE \E out \in {"success", "error"} :
            /\ hloc' = SetStep(hloc, "excel", [status |-> out])
            /\ world' = IF out = "success"
                        THEN [world EXCEPT !.uploads = @ \cup {hloc.enriched_data}]
                        ELSE world
            /\ hpc' = IF out = "success" THEN "H104" ELSE "H88"
    /\ UNCHANGED <<heap, pc, loc, heap0>>

\* lines 87-98.  write_data_to_excel posts the data and returns a success or
\* an error result; it catches every exception itself
H88_excel ==
    /\ hpc = "H88"
    /\ IF Unbound
       THEN /\ hloc' = SetStep(hloc, "excel",
                               [status |-> "error", error |-> "UnboundLocalError"])
            /\ UNCHANGED world
       ELSE \E out \in {"success", "error"} :
            /\ hloc' = SetStep(hloc, "excel", [status |-> out])
            /\ world' = IF out = "success"
                        THEN [world EXCEPT !.uploads = @ \cup {hloc.enriched_data}]
                        ELSE world
    /\ hpc' = "H104"
    /\ UNCHANGED <<heap, pc, loc, heap0>>

\* lines 102-119.  os.environ['DYNAMODB_TABLE'] is read first; store_data
\* makes an id of its own (no record_id is passed), puts the item and returns
\* success, returns an error result, or raises while the table is set up
H104_dynamodb ==
    /\ hpc = "H104"
    /\ IF ~world.DYNAMODB_TABLE
       THEN /\ hloc' = SetStep(hloc, "dynamodb",
                               [status |-> "error", error |-> "KeyError"])
            /\ UNCHANGED world
       ELSE IF Unbound
       THEN /\ hloc' = SetStep(hloc, "dynamodb",
                               [status |-> "error", error |-> "UnboundLocalError"])
            /\ UNCHANGED world
       ELSE \E out \in {"success", "error", "raised"} :
            IF out = "success"
            THEN /\ hloc' = SetStep(hloc, "dynamodb",
                                    [status |-> "success", record_id |-> "uuid-2"])
                 /\ world' = [world EXCEPT !.items = @ \cup
                                {[id |-> "uuid-2",
                                  data |-> [id |-> hloc.record_id,
                                            created_at |-> hloc.results.timestamp,
                                            record |-> hloc.enriched_data]]}]
            ELSE /\ hloc' = SetStep(hloc, "dynamodb",
                                    [status |-> "error", error |-> out])
                 /\ UNCHANGED world
    /\ hpc' = "H124"
    /\ UNCHANGED <<heap, pc, loc, heap0>>

\* lines 123-134.  generate_pdf_report writes the file and returns success
\* with its path, or returns an error result
H124_pdf_generation ==
    /\ hpc = "H124"
    /\ IF Unbound
       THEN /\ hloc' = SetStep(hloc, "pdf_generation",
                               [status |-> "error", error |-> "UnboundLocalError"])
            /\ UNCHANGED world
       ELSE \E out \in {"success", "error"} :
            IF out = "success"
            THEN /\ hloc' = SetStep(hloc, "pdf_generation",
                                    [status |-> "success",
                                     file_path |-> "/tmp/assessment_report.pdf"])
                 /\ world' = [world EXCEPT !.files = @ \cup
                                {"/tmp/assessment_report.pdf"}]
            ELSE /\ hloc' = SetStep(hloc, "pdf_generation", [status |-> "error"])
                 /\ UNCHANGED world
    /\ hpc' = "H137"
    /\ UNCHANGED <<heap, pc, loc, heap0>>

\* lines 137-172 without the test of line 137: the report is sent whatever
\* the pdf_generation step recorded
H137_email_sent_whatever_the_pdf_step ==
    /\ hpc = "H137"
    /\ \E out \in {"success", "error"} :
        /\ hloc' = SetStep(hloc, "email", [status |-> out])
        /\ world' = IF out = "success"
                    THEN [world EXCEPT !.sent = @ \cup
                            {[to_email |-> heap[hloc.validated_data].email,
                              pdf_file_path |-> "/tmp/assessment_report.pdf"]}]
                    ELSE world
    /\ hpc' = "H175"
    /\ UNCHANGED <<heap, pc, loc, heap0>>

\* lines 137-172 without the else branch of lines 165-172: nothing is
\* recorded for the email step when there is no report to send
H137_email_unrecorded_without_report ==
    /\ hpc = "H137"
    /\ LET steps == hloc.results.steps
       IN  IF /\ "pdf_generation" \in DOMAIN steps
              /\ steps.pdf_generation.status = "success"
              /\ "file_path" \in DOMAIN steps.pdf_generation
           THEN \E out \in {"success", "error"} :
                /\ hloc' = SetStep(hloc, "email", [status |-> out])
                /\ world' = IF out = "success"
                            THEN [world EXCEPT !.sent = @ \cup
                                    {[to_email |-> heap[hloc.validated_data].email,
                                      pdf_file_path |-> steps.pdf_generation.file_path]}]
                            ELSE world
           ELSE UNCHANGED <<hloc, world>>
    /\ hpc' = "H175"
    /\ UNCHANGED <<heap, pc, loc, heap0>>

\* lines 137-172
H137_email ==
    /\ hpc = "H137"
    /\ LET steps == hloc.results.steps
       IN  IF /\ "pdf_generation" \in DOMAIN steps
              /\ steps.pdf_generation.status = "success"
              /\ "file_path" \in DOMAIN steps.pdf_generation
           THEN IF heap[hloc.validated_data].email # ""
                THEN \E out \in {"success", "error"} :
                     /\ hloc' = SetStep(hloc, "email", [status |-> out])
                     /\ world' = IF out = "success"
                                 THEN [world EXCEPT !.sent = @ \cup
                                         {[to_email |-> heap[hloc.validated_data].email,
                                           pdf_file_path |-> steps.pdf_generation.file_path]}]
                                 ELSE world
                ELSE /\ hloc' = SetStep(hloc, "email",
                                        [status |-> "skipped",
                                         reason |-> "No recipient email provided"])
                     /\ UNCHANGED world
           ELSE /\ hloc' = SetStep(hloc, "email",
                                   [status |-> "skipped",
                                    reason |-> "PDF generation failed or no file path available"])
                /\ UNCHANGED world
    /\ hpc' = "H175"
    /\ UNCHANGED <<heap, pc, loc, heap0>>

\* lines 175-191 with line 179 tolerating one step that did not succeed
H175_response_tolerating_one_failure ==
    /\ hpc = "H175"
    /\ LET steps == hloc.results.steps
           successful_steps ==
                Cardinality({s \in DOMAIN steps : steps[s].status = "success"})
           total_steps == Cardinality(DOMAIN steps)
       IN  create_response(200,
                [message |-> "Assessment processing completed",
                 record_id |-> hloc.record_id,
                 overall_status |-> IF successful_steps >= total_steps - 1
                                    THEN "success" ELSE "partial_success",
                 successful_steps |-> successful_steps,
                 total_steps |-> total_steps,
                 results |-> hloc.results])
    /\ UNCHANGED <<heap, pc, loc, heap0, world>>

\* lines 175-191
H175_response ==
    /\ hpc = "H175"
    /\ LET steps == hloc.results.steps
           successful_steps ==
                Cardinality({s \in DOMAIN steps : steps[s].status = "success"})
           total_steps == Cardinality(DOMAIN steps)
       IN  create_response(200,
                [message |-> "Assessment processing completed",
                 record_id |-> hloc.record_id,
                 overall_status |-> IF successful_steps = total_steps
                                    THEN "success" ELSE "partial_success",
                 successful_steps |-> successful_steps,
                 total_steps |-> total_steps,
                 results |-> hloc.results])
    /\ UNCHANGED <<heap, pc, loc, heap0, world>>

lambda_handler ==
    \/ H35_body
    \/ H40_json_loads
    \/ H45_not_body
    \/ H50_validate
    \/ H59_results
    \/ H72_call
    \/ H73_calculations
    \/ H88_excel
    \/ H104_dynamodb
    \/ H124_pdf_generation
    \/ H137_email
    \/ H175_response

NextHandler == Next \/ lambda_handler

SpecHandler == InitHandler /\ [][NextHandler]_vars

\* the steps lambda_handler has recorded, and its response once returned
Steps == hloc.results.steps
Responded == hpc = "done"
StepNames == {"calculations", "excel", "dynamodb", "pdf_generation", "email"}

\* the calculation raised and the handler has gone past its except clause
CalculationFaultHandled ==
    /\ pc[1] = "raised"
    /\ hpc # "H73"

\* C20: when calculate_assessment_scores raises inside lambda_handler the
\* handler does not abort.  It records status 'error' for the calculations
\* step, goes on through excel, dynamodb, pdf_generation and email recording a
\* status for each in that order, and returns statusCode 200 with
\* overall_status 'partial_success': the fault is never reported as success.
C20_CalculationFaultGivesPartialSuccess ==
    CalculationFaultHandled =>
        /\ "calculations" \in DOMAIN Steps
        /\ Steps["calculations"].status = "error"
        /\ hpc \in {"H88", "H104", "H124", "H137", "H175", "done"}
        /\ hpc \in {"H104", "H124", "H137", "H175", "done"}
            => "excel" \in DOMAIN Steps
        /\ hpc \in {"H124", "H137", "H175", "done"}
            => "dynamodb" \in DOMAIN Steps
        /\ hpc \in {"H137", "H175", "done"}
            => "pdf_generation" \in DOMAIN Steps
        /\ hpc \in {"H175", "done"}
            => "email" \in DOMAIN Steps
        /\ \A s \in DOMAIN Steps :
                Steps[s].status \in {"success", "error", "skipped"}
        /\ Responded =>
            /\ DOMAIN Steps = StepNames
            /\ hloc.response.statusCode = 200
            /\ hloc.response.body.overall_status = "partial_success"
            /\ hloc.response.body.results.steps["calculations"].status = "error"

\* a request whose revenue is too large for a float: the calculation raised
\* OverflowError and the handler has answered 200 with five recorded steps
C20_Witness ==
    /\ Responded
    /\ pc[1] = "raised"
    /\ loc[1].exc = "OverflowError"
    /\ hloc.response.statusCode = 200
    /\ hloc.response.body.overall_status = "partial_success"
    /\ hloc.response.body.total_steps = 5
    /\ Steps["email"].status = "skipped"

\* validate_assessment_data has been called on the parsed body, and has
\* returned or raised ValidationError
ValidateCalled ==
    /\ hloc.event.body = "object"
    /\ hpc \notin {"H35", "H40", "H45", "H50"}

\* C21: validate_assessment_data leaves its argument unchanged.  After the
\* call, whether it returned or raised ValidationError, the caller's mapping
\* and its nested mappings (metadata among them) have the keys and values they
\* had before the call; the defaults are added to the returned copy only.
C21_ValidateLeavesArgumentUnchanged ==
    ValidateCalled => \A o \in DOMAIN heap0 : heap[o] = heap0[o]

\* the pdf_generation step is recorded with status 'success' and a file_path
PdfRecordedWithFile ==
    /\ "results" \in DOMAIN hloc
    /\ "pdf_generation" \in DOMAIN Steps
    /\ Steps["pdf_generation"].status = "success"
    /\ "file_path" \in DOMAIN Steps["pdf_generation"]

\* C22: in every run of lambda_handler the email is sent only after the
\* pdf_generation step of that run has been recorded with status 'success'
\* and a file_path, and what is sent is that file; when pdf_generation failed
\* or gave no file_path no send is attempted (the email step is neither
\* 'success' nor 'error') and steps.email is recorded as 'skipped'.
C22_EmailOnlyAfterPdfSuccess ==
    /\ hpc # "idle" =>
        \A m \in world.sent :
            /\ PdfRecordedWithFile
            /\ m.pdf_file_path = Steps["pdf_generation"].file_path
            /\ hpc \in {"H175", "done"}
    /\ ("results" \in DOMAIN hloc /\ "email" \in DOMAIN Steps) =>
        IF PdfRecordedWithFile
        THEN Steps["email"].status \in {"success", "error"}
        ELSE Steps["email"].status = "skipped" /\ world.sent = {}

\* a run in which the report was generated and then sent
C22_Witness ==
    /\ Responded
    /\ PdfRecordedWithFile
    /\ Steps["email"].status = "success"
    /\ world.sent = {[to_email |-> "ann@example.com",
                      pdf_file_path |-> "/tmp/assessment_report.pdf"]}


\* the request of the run is one the handler has to reject: no body, a body
\* that is not JSON, an empty body, or a body the schema does not accept
RejectedRequest ==
    \/ hloc.event.body \in {"absent", "malformed", "empty", "array"}
    \/ /\ hloc.event.body = "object"
       /\ ~validate_assessment_data(ParsedBody(hloc.event), arg(1)).valid

\* none of the pipeline steps has been performed
NoStepPerformed ==
    /\ "results" \notin DOMAIN hloc
    /\ pc[1] = "idle"
    /\ world.uploads = {} /\ world.items = {}
    /\ world.files = {} /\ world.sent = {}

\* C23: for a request with no body, a body that is not valid JSON, an empty
\* body or a body that fails schema validation, lambda_handler returns
\* statusCode 400 and performs none of the pipeline steps.
C23_RejectedRequestGets400 ==
    (hpc # "idle" /\ RejectedRequest) =>
        /\ NoStepPerformed
        /\ Responded => hloc.response.statusCode = 400


\* the handler has returned a 200 response
Responded200 ==
    Responded /\ hloc.response.statusCode = 200

\* C24: in every 200 response of lambda_handler overall_status is 'success'
\* exactly when every recorded step has status 'success', which is exactly
\* when successful_steps = total_steps, and it is 'partial_success'
\* otherwise; a step recorded as 'error' or 'skipped' gives 'partial_success'.
C24_OverallStatus ==
    Responded200 =>
        LET body == hloc.response.body
            recorded == body.results.steps
            every_step_succeeded ==
                \A s \in DOMAIN recorded : recorded[s].status = "success"
        IN  /\ body.overall_status \in {"success", "partial_success"}
            /\ body.overall_status = "success" <=> every_step_succeeded
            /\ body.successful_steps = body.total_steps <=> every_step_succeeded
            /\ (\E s \in DOMAIN recorded :
                    recorded[s].status \in {"error", "skipped"})
                => body.overall_status = "partial_success"

\* a 200 response whose only step that did not succeed is the excel step
C24_Witness ==
    /\ Responded200
    /\ Steps["excel"].status = "error"
    /\ \A s \in DOMAIN Steps \ {"excel"} : Steps[s].status = "success"
    /\ hloc.response.body.overall_status = "partial_success"


\* the steps lambda_handler records, in the order of its docstring
StepOrder == <<"calculations", "excel", "dynamodb", "pdf_generation", "email">>

\* the steps recorded in the frame l
StepsOf(l) ==
    IF "results" \in DOMAIN l THEN l.results.steps ELSE EmptyDict

\* the steps that come before StepOrder[i]
Before(i) == {StepOrder[j] : j \in 1..(i - 1)}

\* the step StepOrder[i] is recorded by this transition, and its effect on
\* what the collaborators hold is made by no other transition
RecordedNow(i) ==
    /\ StepOrder[i] \notin DOMAIN StepsOf(hloc)
    /\ StepOrder[i] \in DOMAIN StepsOf(hloc')

\* C25: within one invocation lambda_handler runs validation, calculations,
\* excel, dynamodb, pdf_generation and email in this order: the calculation
\* starts only on validated data and before any step is recorded, a step is
\* recorded only when every step before it is recorded already, one step at
\* a time; a recorded step is never recorded again or changed, and every
\* collaborator acts only in the one transition that records its step.
C25_StepsInOrderAtMostOnce ==
    [][ /\ \A s \in DOMAIN StepsOf(hloc) :
                /\ s \in DOMAIN StepsOf(hloc')
                /\ StepsOf(hloc')[s] = StepsOf(hloc)[s]
        /\ \A i \in 1..Len(StepOrder) :
                RecordedNow(i) =>
                    /\ Before(i) \subseteq DOMAIN StepsOf(hloc)
                    /\ DOMAIN StepsOf(hloc') = Before(i + 1)
                    /\ "validated_data" \in DOMAIN hloc
        /\ pc' # pc =>
                /\ "validated_data" \in DOMAIN hloc
                /\ "results" \in DOMAIN hloc
                /\ DOMAIN StepsOf(hloc') = {}
        /\ world.uploads' # world.uploads => RecordedNow(2)
        /\ world.items' # world.items => RecordedNow(3)
        /\ world.files' # world.files => RecordedNow(4)
        /\ world.sent' # world.sent => RecordedNow(5)
      ]_vars

\* a run in which all five steps were recorded and every collaborator acted
C25_Witness ==
    /\ Responded200
    /\ DOMAIN Steps = {StepOrder[i] : i \in 1..Len(StepOrder)}
    /\ Cardinality(world.uploads) = 1 /\ Cardinality(world.items) = 1
    /\ Cardinality(world.files) = 1 /\ Cardinality(world.sent) = 1


FinancialKeys == BGNumericRequired \cup {"company_industry"}

\* the derived fields of steps 1-13 and the two scores of steps 14-15
ScoreFields == {"company_transferability_score", "personal_readiness_score"}
FinancialFields == DerivedFields \ ScoreFields

\* the calls p and q were made on records with the same industry, number of
\* employees and revenue and profit figures
SameFinancialInputs(p, q) ==
    /\ CalledOnInput(p) /\ CalledOnInput(q)
    /\ FinancialKeys \subseteq DOMAIN ArgBG(p) \cap DOMAIN ArgBG(q)
    /\ \A k \in FinancialKeys : ArgBG(p)[k] = ArgBG(q)[k]

\* the calls p and q were made on records with the same two score sections
SameScoreSections(p, q) ==
    /\ CalledOnInput(p) /\ CalledOnInput(q)
    /\ ArgBP(p) = ArgBP(q)
    /\ ArgPR(p) = ArgPR(q)

\* C27: the derived fields depend only on company_industry,
\* number_of_employees, the four revenue and profit figures and the two
\* score sections.  Two records that agree on these (and differ in
\* company_name, current_business_value, target_sale_price,
\* planned_exit_timeline, would_accept_offer, business_readiness, or in the
\* names, email, phone or metadata) give identical assessment_calculations;
\* records that agree on the financial inputs give the same financial fields
\* whatever their score sections, and records that agree on the score
\* sections give the same two scores whatever their financial inputs.
C27_DerivedFieldsDependOnlyOnTheirInputs ==
    \A p \in Procs : \A q \in Procs :
        (Returned(p) /\ Returned(q)) =>
            /\ (SameFinancialInputs(p, q) /\ SameScoreSections(p, q))
                    => OutputCalc(p) = OutputCalc(q)
            /\ SameFinancialInputs(p, q)
                    => \A f \in FinancialFields : OutputCalc(p)[f] = OutputCalc(q)[f]
            /\ SameScoreSections(p, q)
                    => \A f \in ScoreFields : OutputCalc(p)[f] = OutputCalc(q)[f]

\* two calls have returned on records of different clients that differ in
\* every field the calculation does not read
C27_Witness ==
    /\ Returned(1) /\ Returned(2)
    /\ SameFinancialInputs(1, 2) /\ SameScoreSections(1, 2)
    /\ ArgTop(1).email # ArgTop(2).email
    /\ heap0[ArgTop(1).metadata] # heap0[ArgTop(2).metadata]
    /\ \A k \in DOMAIN ArgBG(1) \ FinancialKeys : ArgBG(1)[k] # ArgBG(2)[k]
    /\ OutputCalc(1) = OutputCalc(2)


\* the properties a score x of an in-contract section has: 0 exactly for the
\* empty section, otherwise in [16.7, 100.0] and 100.0 exactly when every
\* entry is 6
ScoreFitsSection(x, section) ==
    /\ x = Zero <=> DOMAIN section = {}
    /\ DOMAIN section # {} =>
        /\ RLe(Rat(167, 10), x) /\ RLe(x, Num(100))
        /\ x = Num(100) <=> \A k \in DOMAIN section : section[k].val = 6

\* the section t is the section s with a single entry raised
OneEntryRaised(s, t) ==
    /\ InContract(s) /\ InContract(t)
    /\ DOMAIN s = DOMAIN t
    /\ \E k \in DOMAIN s :
        /\ s[k].val < t[k].val
        /\ \A j \in DOMAIN s \ {k} : s[j] = t[j]

\* C28: for a section in which every present value is an integer in 1..6
\* the section's score is 0 exactly when the section has no entries; with at
\* least one entry it lies in [16.7, 100.0] and is 100.0 exactly when every
\* entry is 6; and of two sections that differ in a single entry, the one
\* with the higher entry has a score that is not lower.
C28_ScoreBoundsAndMonotone ==
    \A p \in Procs :
        (Returned(p) /\ CalledOnInput(p)) =>
            /\ InContract(ArgBP(p)) =>
                ScoreFitsSection(OutputCalc(p)["company_transferability_score"],
                                 ArgBP(p))
            /\ InContract(ArgPR(p)) =>
                ScoreFitsSection(OutputCalc(p)["personal_readiness_score"],
                                 ArgPR(p))
            /\ \A q \in Procs :
                (Returned(q) /\ CalledOnInput(q)) =>
                    /\ OneEntryRaised(ArgBP(p), ArgBP(q)) =>
                        RLe(OutputCalc(p)["company_transferability_score"],
                            OutputCalc(q)["company_transferability_score"])
                    /\ OneEntryRaised(ArgPR(p), ArgPR(q)) =>
                        RLe(OutputCalc(p)["personal_readiness_score"],
                            OutputCalc(q)["personal_readiness_score"])

\* a whole section with one 5 among the 6s scores 99.4 (98.3 for the ten
\* fields), and 100.0 once that entry is raised to 6
C28_Witness ==
    /\ Returned(1) /\ Returned(2)
    /\ CalledOnInput(1) /\ CalledOnInput(2)
    /\ OneEntryRaised(ArgBP(1), ArgBP(2))
    /\ OneEntryRaised(ArgPR(1), ArgPR(2))
    /\ Cardinality(DOMAIN ArgBP(1)) = 26
    /\ OutputCalc(1)["company_transferability_score"] = Rat(994, 10)
    /\ OutputCalc(1)["personal_readiness_score"] = Rat(983, 10)
    /\ OutputCalc(2)["company_transferability_score"] = Num(100)
    /\ OutputCalc(2)["personal_readiness_score"] = Num(100)


\* C29: the item that the dynamodb step writes has the primary key 'id'
\* equal to the record_id that lambda_handler generated for the request and
\* returns in its response.
C29_ItemKeyIsReturnedRecordId ==
    hpc # "idle" =>
        \A item \in world.items :
            /\ item.id = hloc.record_id
            /\ Responded200 => item.id = hloc.response.body.record_id


\* C30: whenever a request passes validation, whatever combination of later
\* steps fails or raises, lambda_handler ends with a 200 response whose
\* results.steps holds exactly one entry for each of calculations, excel,
\* dynamodb, pdf_generation and email, each with a status of 'success',
\* 'error' or 'skipped', so that total_steps = 5 and
\* 0 <= successful_steps <= 5.
C30_EveryStepRecorded ==
    (Responded /\ "validated_data" \in DOMAIN hloc) =>
        LET body == hloc.response.body
        IN  /\ hloc.response.statusCode = 200
            /\ DOMAIN body.results.steps = StepNames
            /\ \A s \in StepNames :
                    body.results.steps[s].status \in {"success", "error", "skipped"}
            /\ body.total_steps = 5
            /\ body.successful_steps \in 0..5
            /\ body.results = hloc.results

\* a validated request of which only the first two steps succeeded: the
\* table name is not configured, the report fails and the email is skipped
C30_Witness ==
    /\ Responded200
    /\ ~world.DYNAMODB_TABLE
    /\ Steps["calculations"].status = "success"
    /\ Steps["excel"].status = "success"
    /\ Steps["dynamodb"].status = "error"
    /\ Steps["pdf_generation"].status = "error"
    /\ Steps["email"].status = "skipped"
    /\ hloc.response.body.successful_steps = 2

====
